---- MODULE Spec2Model ----
(***************************************************************************)
(* The system of record of the ticket scanner (scan-barcode-app): the      *)
(* authoritative scan endpoint (POST /api/scan) and the reconciliation     *)
(* endpoint (POST /api/sync), each a Prisma interactive transaction whose  *)
(* statements are awaited one at a time.  The routes pass no isolation     *)
(* level to prisma.$transaction, so a statement reads what is committed at *)
(* the moment it runs (plus the transaction's own writes), writes stay     *)
(* private until the commit, and a write waits for a row another           *)
(* transaction has written and not yet committed.                          *)
(***************************************************************************)
EXTENDS Integers, Sequences, FiniteSets, TLC

VARIABLES
  tickets,   \* committed Ticket rows, a function from ticket id to row
  scanLogs,  \* committed ScanLog rows, a function from scan log id to row
  now,       \* the server clock read by new Date()
  uuids,     \* how many ids uuidv4() has handed out on the server
  scanTx,    \* the in-flight POST /api/scan requests, one per slot
  syncTx,    \* the in-flight POST /api/sync request
  isOnline,        \* navigator.onLine, as the online and offline handlers keep it
  timers,          \* setTimeout(checkAndSync, 1000) callbacks not yet run
  pendingTickets,  \* db.pendingTickets of the device, by id
  pendingScanLogs, \* db.pendingScanLogs of the device, by id
  cachedTickets,   \* db.cachedTickets of the device, by id
  devUuids,        \* how many ids uuidv4() has handed out on the device
  scanResult,      \* what the scan page shows for the last scan
  jobs,            \* the running checkAndSync calls of the device
  serving,         \* the job whose request the server is handling
  swInbox,         \* MANUAL_SYNC messages the service worker has not handled
  isProcessing,    \* the busy flag of the scan page
  lastScannedCode, \* the payload the scan page's duplicate guard remembers
  camera,          \* the render whose onScan the running camera scanner calls
  calls,           \* the calls of processTicketScan that have not returned
  peerTx,          \* a second POST /api/sync request in flight on the server
  sched            \* the scheduler: whether its cleanup has run

\* the device: its stores, its scheduler and its service worker
devVars == <<isOnline, timers, pendingTickets, pendingScanLogs, cachedTickets,
             devUuids, scanResult, jobs, serving, swInbox>>

\* the scan page: its React state and the callbacks it has running
pageVars == <<isProcessing, lastScannedCode, camera, calls>>

vars == <<tickets, scanLogs, now, uuids, scanTx, syncTx, devVars, pageVars,
          peerTx, sched>>

----------------------------------------------------------------------------
\* Bounds of the model.

\* longest tickets array of a reconciliation request
MaxBatchTickets == 1
\* longest scanLogs array of a reconciliation request
MaxBatchLogs == 2
\* reconciliation requests handled in one behaviour
MaxSyncs == 2

----------------------------------------------------------------------------
\* Values.

TicketIds == {"T1", "T2"}
QrCodes == {"Q1", "Q2"}
DeviceLogIds == {<<"dev", 1>>, <<"dev", 2>>}
ScanSlots == {"a", "b"}

Statuses == {"ACTIVE", "USED", "CANCELLED", "INVALID"}

\* a column that holds null, or a request field that is absent
NoValue == "NULL"
\* usedAt of a ticket that was never used
NoTime == -1
NoLog == <<"none", 0>>

\* the device clock at the offline scan that made scan log lid: the k-th
\* offline scan is stamped k
OfflineTime(lid) == lid[2]
\* the server handles its requests after the offline scans were stamped
ServerEpoch == Cardinality(DeviceLogIds) + 1

EventNames == {"Expo"}
TicketTypes == {"VIP"}
Prices == {10}
HolderNames == {NoValue}
HolderEmails == {NoValue, "", "a@x.io"}

EmptyFn == [k \in {} |-> NoValue]
Range(s) == {s[k] : k \in DOMAIN s}

\* uuidv4() on the server: an id no device and no earlier call produced
Uuid(n) == <<"srv", n>>

\* holderEmail: ticketData.holderEmail || null
StoredEmail(e) == IF e = NoValue \/ e = "" THEN NoValue ELSE e

----------------------------------------------------------------------------
\* Request payloads.

\* an element of the tickets array accepted by syncDataSchema
TicketItems ==
  [id : TicketIds, eventName : EventNames, ticketType : TicketTypes,
   price : Prices, qrCode : QrCodes, holderName : HolderNames,
   holderEmail : HolderEmails, createdAt : {0}]

\* an element of the scanLogs array accepted by syncDataSchema
LogItems ==
  {[id |-> lid, ticketId |-> tid, scannedAt |-> OfflineTime(lid),
    scannedBy |-> "Scanner App (Offline)"] :
     lid \in DeviceLogIds, tid \in TicketIds}

\* sequences of at most n elements of S with pairwise different ids: the
\* pending stores the arrays are read from are keyed by id
RECURSIVE SeqsById(_, _)
SeqsById(S, n) ==
  IF n = 0 THEN {<<>>}
  ELSE LET shorter == SeqsById(S, n - 1)
       IN shorter \cup
          {Append(q, e) : <<q, e>> \in
             {p \in shorter \X S :
                /\ Len(p[1]) = n - 1
                /\ \A k \in 1..Len(p[1]) : p[1][k].id # p[2].id}}

\* the request bodies of POST /api/sync; a client sends none when it has
\* nothing pending
Batches ==
  {b \in [tickets : SeqsById(TicketItems, MaxBatchTickets),
          scanLogs : SeqsById(LogItems, MaxBatchLogs)] :
     Len(b.tickets) + Len(b.scanLogs) > 0}

----------------------------------------------------------------------------
\* Rows.

\* a create that lets createdAt take the column default, the server time
MutNewTicketRow(item) ==
  [id |-> item.id, eventName |-> item.eventName,
   ticketType |-> item.ticketType, price |-> item.price,
   qrCode |-> item.qrCode, holderName |-> item.holderName,
   holderEmail |-> StoredEmail(item.holderEmail),
   createdAt |-> now, status |-> "ACTIVE", usedAt |-> NoTime]

\* tx.ticket.create({data: {...ticketData, holderEmail: ... || null}});
\* status and usedAt take the column defaults
NewTicketRow(item) ==
  [id |-> item.id, eventName |-> item.eventName,
   ticketType |-> item.ticketType, price |-> item.price,
   qrCode |-> item.qrCode, holderName |-> item.holderName,
   holderEmail |-> StoredEmail(item.holderEmail),
   createdAt |-> item.createdAt, status |-> "ACTIVE", usedAt |-> NoTime]

\* tx.scanLog.create({data: scanLogData})
NewLogRow(item) ==
  [id |-> item.id, ticketId |-> item.ticketId,
   scannedAt |-> item.scannedAt, scannedBy |-> item.scannedBy]

\* a ticket issued online before the behaviour starts, in any status
SeedTicket(id, qr, st) ==
  [id |-> id, eventName |-> "Expo", ticketType |-> "VIP", price |-> 10,
   qrCode |-> qr, holderName |-> NoValue, holderEmail |-> NoValue,
   createdAt |-> 0, status |-> st,
   usedAt |-> IF st = "USED" THEN 0 ELSE NoTime]

----------------------------------------------------------------------------
\* The authoritative scan: POST /api/scan.

\* tx.ticket.findUnique({where: {qrCode}}): qrCode is a unique column
TicketByQr(ts, qr) ==
  IF \E id \in DOMAIN ts : ts[id].qrCode = qr
  THEN CHOOSE id \in DOMAIN ts : ts[id].qrCode = qr
  ELSE NoValue

\* the catch block: the status code and the error text for a thrown message
ScanFailure(msg) ==
  CASE msg = "TICKET_NOT_FOUND" ->
         [success |-> FALSE, http |-> 404, code |-> msg,
          error |-> "Ticket not found", ticketId |-> NoValue, scanLogId |-> NoLog]
    [] msg = "TICKET_USED" ->
         [success |-> FALSE, http |-> 409, code |-> msg,
          error |-> "Ticket already used", ticketId |-> NoValue, scanLogId |-> NoLog]
    [] msg = "TICKET_CANCELLED" ->
         [success |-> FALSE, http |-> 409, code |-> msg,
          error |-> "Ticket cancelled", ticketId |-> NoValue, scanLogId |-> NoLog]
    [] msg = "TICKET_INVALID" ->
         [success |-> FALSE, http |-> 409, code |-> msg,
          error |-> "Ticket invalid", ticketId |-> NoValue, scanLogId |-> NoLog]
    [] OTHER ->
         [success |-> FALSE, http |-> 500, code |-> msg,
          error |-> "Internal server error", ticketId |-> NoValue, scanLogId |-> NoLog]

ScanSuccess(tid, lid) ==
  [success |-> TRUE, http |-> 200, code |-> "OK", error |-> NoValue,
   ticketId |-> tid, scanLogId |-> lid]

NoResponse ==
  [success |-> FALSE, http |-> 0, code |-> NoValue, error |-> NoValue,
   ticketId |-> NoValue, scanLogId |-> NoLog]

IdleScan ==
  [pc |-> "idle", qrCode |-> NoValue, ticketId |-> NoValue,
   afterSuccess |-> FALSE, resp |-> NoResponse]

\* the scan logs written by the authoritative path for ticket tid
AuthoritativeLogs(tid) ==
  {l \in DOMAIN scanLogs : l[1] = "srv" /\ scanLogs[l].ticketId = tid}

\* a scan whose transaction ended in a throw: nothing was written
ScanRejected(s, qr, tid, msg) ==
  [pc |-> "done", qrCode |-> qr, ticketId |-> tid,
   afterSuccess |-> tid # NoValue /\ AuthoritativeLogs(tid) # {},
   resp |-> ScanFailure(msg)]

\* the status check of the transaction
ScanAdmits(status) == status = "ACTIVE"

\* a scan that stamps usedAt and forgets the status
MutScanUpdate(row, t) == [row EXCEPT !.usedAt = t]

\* ticket.update({data: {status: "USED", usedAt: new Date()}})
ScanUpdate(row, t) == [row EXCEPT !.status = "USED", !.usedAt = t]

\* the rows of tickets that the reconciliations in flight have written and
\* not committed: a write to one of them waits for its commit
SyncLocked ==
  (IF syncTx.pc \in {"idle", "done"} THEN {} ELSE DOMAIN syncTx.wT)
  \cup (IF peerTx.pc \in {"idle", "done"} THEN {} ELSE DOMAIN peerTx.wT)

\* the request arrives; findUnique by qrCode and the two checks
ScanBegin(s, qr) ==
  /\ scanTx[s].pc \in {"idle", "done"}
  /\ LET tid == TicketByQr(tickets, qr)
     IN scanTx' = [scanTx EXCEPT ![s] =
          IF tid = NoValue THEN ScanRejected(s, qr, tid, "TICKET_NOT_FOUND")
          ELSE IF ~ScanAdmits(tickets[tid].status)
               THEN ScanRejected(s, qr, tid, "TICKET_" \o tickets[tid].status)
               ELSE [pc |-> "update", qrCode |-> qr, ticketId |-> tid,
                     afterSuccess |-> AuthoritativeLogs(tid) # {},
                     resp |-> NoResponse]]
  /\ UNCHANGED <<tickets, scanLogs, now, uuids, syncTx, peerTx, devVars,
                 pageVars, sched>>

\* ticket.update, scanLog.create, the commit and the response
ScanWrite(s) ==
  /\ scanTx[s].pc = "update"
  /\ scanTx[s].ticketId \notin SyncLocked
  /\ LET tid == scanTx[s].ticketId
         lid == Uuid(uuids + 1)
     IN /\ tickets' = [tickets EXCEPT ![tid] = ScanUpdate(@, now)]
        /\ scanLogs' = (lid :> [id |-> lid, ticketId |-> tid, scannedAt |-> now,
                                scannedBy |-> "Scanner App"]) @@ scanLogs
        /\ scanTx' = [scanTx EXCEPT ![s] =
             [@ EXCEPT !.pc = "done", !.resp = ScanSuccess(tid, lid)]]
  /\ uuids' = uuids + 1
  /\ now' = now + 1
  /\ UNCHANGED <<syncTx, peerTx, devVars, pageVars, sched>>

----------------------------------------------------------------------------
\* The reconciliation: POST /api/sync.

NoBatch == [tickets |-> <<>>, scanLogs |-> <<>>]
NoSynced == [tickets |-> <<>>, scanLogs |-> <<>>]

IdleSync ==
  [pc |-> "idle", batch |-> NoBatch, i |-> 0, seen |-> NoValue,
   wT |-> EmptyFn, wL |-> EmptyFn, synced |-> NoSynced, errors |-> <<>>,
   flipped |-> {}, kept |-> {}, n |-> 0,
   retry |-> FALSE, prevSynced |-> NoSynced]

\* what the statements of the transaction read: the committed rows under
\* the rows the transaction has written itself
ViewTickets == syncTx.wT @@ tickets
ViewLogs == syncTx.wL @@ scanLogs

\* the rows the other reconciliation in flight has written and not
\* committed: an update of one of these rows, and a create with the id or
\* the qrCode of one of them, waits until that transaction has ended
PeerTickets ==
  IF peerTx.pc \in {"idle", "done", "failed"} THEN EmptyFn ELSE peerTx.wT
PeerLogs ==
  IF peerTx.pc \in {"idle", "done", "failed"} THEN EmptyFn ELSE peerTx.wL

\* the loop position after item i of the tickets array
AfterTicket(tx) ==
  IF tx.i < Len(tx.batch.tickets) THEN [tx EXCEPT !.pc = "ticket", !.i = tx.i + 1]
  ELSE IF Len(tx.batch.scanLogs) > 0 THEN [tx EXCEPT !.pc = "log", !.i = 1]
  ELSE [tx EXCEPT !.pc = "commit", !.i = 0]

\* the loop position after item i of the scanLogs array
AfterLog(tx) ==
  IF tx.i < Len(tx.batch.scanLogs)
  THEN [tx EXCEPT !.pc = "log", !.i = tx.i + 1, !.seen = NoValue]
  ELSE [tx EXCEPT !.pc = "commit", !.i = 0, !.seen = NoValue]

\* syncResult.synced.tickets.push(id)
PushTicket(tx, id) ==
  [tx EXCEPT !.synced.tickets = Append(@, id)]

\* syncResult.synced.scanLogs.push(id)
PushLog(tx, id) ==
  [tx EXCEPT !.synced.scanLogs = Append(@, id)]

\* the catch of an item: syncResult.errors.push({type, id, error})
PushError(tx, type, id, msg) ==
  [tx EXCEPT !.errors = Append(@, [type |-> type, id |-> id, error |-> msg])]

\* an update that stamps usedAt with the time of the reconciliation
MutSyncUpdate(row, item) ==
  [row EXCEPT !.status = "USED", !.usedAt = now]

\* an update that flips the status and leaves usedAt as it was
MutSyncUpdateStatus(row, item) == [row EXCEPT !.status = "USED"]

\* ticket.update({data: {status: "USED", usedAt: scanLogData.scannedAt}})
SyncUpdate(row, item) ==
  [row EXCEPT !.status = "USED", !.usedAt = item.scannedAt]

\* a scan log loop that never updates the ticket
MutSyncNeverFlips(status) == FALSE

\* a scan log loop that updates the ticket whatever its status
MutSyncFlips(status) == TRUE

\* the condition under which the scan log loop updates the ticket
SyncFlips(status) == status = "ACTIVE"

\* the requests explored after the first one of a behaviour: the retry of
\* the request answered last, and one scan log of another device
LaterBatch(b) ==
  \/ b = syncTx.batch
  \/ Len(b.tickets) = 0 /\ Len(b.scanLogs) = 1

\* a lookup that misses the rows the transaction has written itself
MutTicketFoundCommitted(id) == id \in DOMAIN tickets

\* tx.ticket.findUnique({where: {id}}) found a row
TicketFound(id) == id \in DOMAIN ViewTickets

\* a scanLog table without a unique id
MutLogTaken(id) == FALSE

\* scanLog.create fails on the unique id
LogTaken(id) == id \in DOMAIN ViewLogs

\* a scan log loop that never finds the scan log it looks up
MutLogFound(id) == FALSE

\* tx.scanLog.findUnique({where: {id}}) found a row
LogFound(id) == id \in DOMAIN ViewLogs

\* a catch that stores the scan log it reports
MutCatchLogStore(tx, item, msg) ==
  [PushError(tx, "scanLog", item.id, msg) EXCEPT
     !.wL = (item.id :> NewLogRow(item)) @@ @]

\* a catch that gives up what the transaction has done so far
MutCatchLogUndo(tx, item, msg) ==
  [PushError(tx, "scanLog", item.id, msg) EXCEPT
     !.wT = EmptyFn, !.wL = EmptyFn, !.synced = NoSynced]

\* a catch that falls through to the push of the id
MutCatchLog(tx, item, msg) ==
  PushLog(PushError(tx, "scanLog", item.id, msg), item.id)

\* the catch of a scan log item: the error is pushed, the id is not
CatchLog(tx, item, msg) == PushError(tx, "scanLog", item.id, msg)

\* a catch of a ticket item that reports nothing
MutCatchTicketSilent(tx, item, msg) == tx

\* the catch of a ticket item: the error is pushed, the id is not
CatchTicket(tx, item, msg) == PushError(tx, "ticket", item.id, msg)

\* the request arrives with body b; a request that repeats the body of the
\* request answered last is a retry
SyncBegin(b) ==
  /\ syncTx.pc \in {"idle", "done"}
  /\ syncTx.n < MaxSyncs
  /\ syncTx.pc = "done" => LaterBatch(b)
  /\ syncTx' =
       AfterTicket([IdleSync EXCEPT
          !.batch = b, !.n = syncTx.n + 1,
          !.retry = (syncTx.pc = "done" /\ b = syncTx.batch),
          !.prevSynced = IF syncTx.pc = "done" /\ b = syncTx.batch
                         THEN syncTx.synced ELSE NoSynced])
  /\ UNCHANGED <<tickets, scanLogs, now, uuids, scanTx, peerTx, devVars,
                 pageVars, sched>>

\* ticket loop: findUnique by id; an existing ticket is skipped and pushed
SyncTicketFind ==
  /\ syncTx.pc = "ticket"
  /\ LET item == syncTx.batch.tickets[syncTx.i]
     IN syncTx' =
          IF TicketFound(item.id)
          THEN AfterTicket(PushTicket(syncTx, item.id))
          ELSE [syncTx EXCEPT !.pc = "create"]
  /\ UNCHANGED <<tickets, scanLogs, now, uuids, scanTx, peerTx, devVars,
                 pageVars, sched>>

\* ticket loop: ticket.create; the unique columns id and qrCode reject a
\* second row, and the throw is caught for this item
SyncTicketCreate ==
  /\ syncTx.pc = "create"
  /\ LET item == syncTx.batch.tickets[syncTx.i]
     IN /\ item.id \notin DOMAIN PeerTickets
        /\ TicketByQr(PeerTickets, item.qrCode) = NoValue
        /\ syncTx' =
          IF \/ item.id \in DOMAIN ViewTickets
             \/ TicketByQr(ViewTickets, item.qrCode) # NoValue
          THEN AfterTicket(CatchTicket(syncTx, item, "Unique constraint failed"))
          ELSE AfterTicket(PushTicket(
                 [syncTx EXCEPT !.wT = (item.id :> NewTicketRow(item)) @@ @],
                 item.id))
  /\ UNCHANGED <<tickets, scanLogs, now, uuids, scanTx, peerTx, devVars,
                 pageVars, sched>>

\* scan log loop: findUnique by id; an existing scan log is skipped and
\* pushed
SyncLogFind ==
  /\ syncTx.pc = "log"
  /\ LET item == syncTx.batch.scanLogs[syncTx.i]
     IN syncTx' =
          IF LogFound(item.id)
          THEN AfterLog(PushLog(syncTx, item.id))
          ELSE [syncTx EXCEPT !.pc = "logTicket"]
  /\ UNCHANGED <<tickets, scanLogs, now, uuids, scanTx, peerTx, devVars,
                 pageVars, sched>>

\* scan log loop: findUnique of the referenced ticket; a missing ticket
\* throws, and the throw is caught for this item
SyncLogTicket ==
  /\ syncTx.pc = "logTicket"
  /\ LET item == syncTx.batch.scanLogs[syncTx.i]
     IN syncTx' =
          IF TicketFound(item.ticketId)
          THEN [syncTx EXCEPT !.pc = "logWrite",
                              !.seen = ViewTickets[item.ticketId].status]
          ELSE AfterLog(CatchLog(syncTx, item, "Associated ticket not found"))
  /\ UNCHANGED <<tickets, scanLogs, now, uuids, scanTx, peerTx, devVars,
                 pageVars, sched>>

\* scan log loop: scanLog.create, then ticket.update when the ticket that
\* was read is ACTIVE
SyncLogWrite ==
  /\ syncTx.pc = "logWrite"
  /\ LET item == syncTx.batch.scanLogs[syncTx.i]
         made == [syncTx EXCEPT !.wL = (item.id :> NewLogRow(item)) @@ @]
     IN /\ item.id \notin DOMAIN PeerLogs
        /\ SyncFlips(syncTx.seen) => item.ticketId \notin DOMAIN PeerTickets
        /\ syncTx' =
          IF LogTaken(item.id)
          THEN AfterLog(CatchLog(syncTx, item, "Unique constraint failed"))
          ELSE IF SyncFlips(syncTx.seen)
          THEN AfterLog(PushLog(
                 [made EXCEPT
                    !.wT = (item.ticketId :>
                              SyncUpdate(ViewTickets[item.ticketId], item)) @@ @,
                    !.flipped = @ \cup {item.id}],
                 item.id))
          ELSE AfterLog(PushLog([made EXCEPT !.kept = @ \cup {item.id}],
                                item.id))
  /\ UNCHANGED <<tickets, scanLogs, now, uuids, scanTx, peerTx, devVars,
                 pageVars, sched>>

\* a commit that answers and keeps nothing of what the transaction wrote
MutSyncCommitLost ==
  /\ syncTx.pc = "commit"
  /\ syncTx' = [syncTx EXCEPT !.pc = "done"]
  /\ UNCHANGED <<tickets, scanLogs, now, uuids, scanTx, peerTx, devVars,
                 pageVars, sched>>

\* the callback returns: the transaction commits and the response is sent
SyncCommit ==
  /\ syncTx.pc = "commit"
  /\ tickets' = ViewTickets
  /\ scanLogs' = ViewLogs
  /\ syncTx' = [syncTx EXCEPT !.pc = "done"]
  /\ UNCHANGED <<now, uuids, scanTx, peerTx, devVars, pageVars, sched>>

\* two requests with the same body arrive, the second while the first is
\* being handled: two reconcilers of one device, or a retry
SyncTwice(b) ==
  /\ syncTx.pc = "idle"
  /\ peerTx.pc = "idle"
  /\ syncTx' = AfterTicket([IdleSync EXCEPT !.batch = b, !.n = 1])
  /\ peerTx' = AfterTicket([IdleSync EXCEPT !.batch = b, !.n = 2])
  /\ UNCHANGED <<tickets, scanLogs, now, uuids, scanTx, devVars, pageVars,
                 sched>>

\* the server runs the statements of the two requests one at a time, in
\* any order: the other request is the one whose statement runs next
Switch ==
  /\ peerTx.pc # "idle"
  /\ syncTx' = peerTx
  /\ peerTx' = syncTx
  /\ UNCHANGED <<tickets, scanLogs, now, uuids, scanTx, devVars, pageVars,
                 sched>>

\* the body of the response to a reconciliation that committed
SyncResponse(tx) ==
  [success |-> TRUE, synced |-> tx.synced, errors |-> tx.errors,
   summary |-> [ticketsProcessed |-> Len(tx.batch.tickets),
                scanLogsProcessed |-> Len(tx.batch.scanLogs),
                ticketsSynced |-> Len(tx.synced.tickets),
                scanLogsSynced |-> Len(tx.synced.scanLogs),
                totalErrors |-> Len(tx.errors)]]

----------------------------------------------------------------------------
\* The system of record.

\* the qrCode of the ticket issued online under id
SeedQr(id) == IF id = "T1" THEN "Q1" ELSE "Q2"

\* the tickets on record when a behaviour starts: each ticket of ids is
\* either not issued yet or on record in any status
Seeded(ids) ==
  {[id \in DOMAIN st |-> SeedTicket(id, SeedQr(id), st[id])] :
     st \in UNION {[some -> Statuses] : some \in SUBSET ids}}

----------------------------------------------------------------------------
\* The device: the local stores (Dexie), the offline scan, the offline
\* ticket form, the reconciler performManualSync and the scheduler
\* initializeAutoSync.  The page runs one callback at a time; a callback
\* gives way at each await, where the steps below are cut.

\* settling timers that can be waiting at once
MaxTimers == 1

\* the periodic call of checkAndSync and the one the reconnect timer makes
JobSlots == {"tick", "timer"}

\* the order in which Dexie returns rows: by primary key
TicketOrder == <<"T1", "T2">>
LogOrder == <<<<"dev", 1>>, <<"dev", 2>>>>

\* what a call of performManualSync came to: the report it returned or the
\* error it threw; NoReport before any call has ended
NoReport ==
  [success |-> FALSE, ticketsSynced |-> 0, scanLogsSynced |-> 0,
   errors |-> <<>>, thrown |-> NoValue]

\* the scheduler after initializeAutoSync and before its cleanup; isOnline
\* is the value the closure keeps once the listeners are removed
Running == [stopped |-> FALSE, isOnline |-> FALSE]

IdleJob == [pc |-> "idle", batch |-> NoBatch, result |-> NoReport]

NoScanResult == [success |-> FALSE, error |-> NoValue, isOffline |-> FALSE,
                 scanLogId |-> NoLog]

\* addPendingTicket / addPendingScanLog: the row is stored with synced: 0
Unsynced(row) == [row |-> row, synced |-> 0]

\* where("synced").equals(0).toArray()
GetPending(store, order) ==
  LET ids == SelectSeq(order, LAMBDA id :
                 id \in DOMAIN store /\ store[id].synced = 0)
  IN [k \in DOMAIN ids |-> store[ids[k]].row]

\* a pruning that empties the store
MutClearAllRows(store) == EmptyFn

\* a pruning that deletes the rows that were submitted
MutClearSynced(store) ==
  [id \in {x \in DOMAIN store : store[x].synced # 0} |-> store[id]]

\* where("synced").equals(1).delete()
ClearSynced(store) ==
  [id \in {x \in DOMAIN store : store[x].synced # 1} |-> store[id]]

\* getPendingSyncCount().total
PendingTotal ==
  Len(GetPending(pendingTickets, TicketOrder))
  + Len(GetPending(pendingScanLogs, LogOrder))

\* a request body that leaves the holderEmail of every ticket out
MutSyncDataEmail(pt, pl) ==
  [tickets |-> [k \in DOMAIN pt |-> [pt[k] EXCEPT !.holderEmail = ""]],
   scanLogs |-> pl]

\* a request body that leaves the scan logs out
MutSyncData(pt, pl) == [tickets |-> pt, scanLogs |-> <<>>]

\* performManualSync: the request body made of the pending rows
SyncData(pt, pl) ==
  [tickets |-> [k \in DOMAIN pt |->
                  [pt[k] EXCEPT !.holderEmail = IF @ = NoValue THEN "" ELSE @]],
   scanLogs |-> pl]

\* the ticket the offline form builds: qrCode is the id, an empty
\* holderEmail field is left out
FormTicket(id, email) ==
  [id |-> id, eventName |-> "Expo", ticketType |-> "VIP", price |-> 10,
   qrCode |-> SeedQr(id), holderName |-> NoValue, holderEmail |-> email,
   createdAt |-> 0]

\* a row of db.cachedTickets
CacheRow(id, qr, st, used) ==
  [id |-> id, qrCode |-> qr, status |-> st, usedAt |-> used]

\* getCachedTicketByQR
CachedByQr(qr) ==
  IF \E id \in DOMAIN cachedTickets : cachedTickets[id].qrCode = qr
  THEN CHOOSE id \in DOMAIN cachedTickets : cachedTickets[id].qrCode = qr
  ELSE NoValue

\* isOnline of the scheduler: the listeners keep it equal to the state of
\* the browser until the cleanup removes them
SchedOnline == IF sched.stopped THEN sched.isOnline ELSE isOnline

\* the cleanup initializeAutoSync returns: the interval is cleared and the
\* two listeners are removed
Cleanup ==
  /\ ~sched.stopped
  /\ sched' = [stopped |-> TRUE, isOnline |-> isOnline]
  /\ UNCHANGED <<pageVars, tickets, scanLogs, now, uuids, scanTx, syncTx,
                 peerTx, isOnline, timers, pendingTickets, pendingScanLogs,
                 cachedTickets, devUuids, scanResult, jobs, serving, swInbox>>

\* the browser goes online: handleOnline of the scheduler, while it
\* listens, sets its timer; handleOnline of the service worker registration
\* posts MANUAL_SYNC
GoOnline ==
  /\ ~isOnline
  /\ sched.stopped \/ timers < MaxTimers
  /\ isOnline' = TRUE
  /\ timers' = IF sched.stopped THEN timers ELSE timers + 1
  /\ swInbox' = swInbox \cup {"online"}
  /\ UNCHANGED <<pageVars, tickets, scanLogs, now, uuids, scanTx, syncTx,
                 peerTx, pendingTickets, pendingScanLogs, cachedTickets,
                 devUuids, scanResult, jobs, serving, sched>>

\* the browser goes offline: handleOffline
GoOffline ==
  /\ isOnline
  /\ isOnline' = FALSE
  /\ UNCHANGED <<pageVars, tickets, scanLogs, now, uuids, scanTx, syncTx,
                 peerTx, timers, pendingTickets, pendingScanLogs,
                 cachedTickets, devUuids, scanResult, jobs, serving, swInbox,
                 sched>>

\* the Sync button of the status badge posts MANUAL_SYNC
SyncButton ==
  /\ isOnline
  /\ PendingTotal > 0
  /\ "button" \notin swInbox
  /\ swInbox' = swInbox \cup {"button"}
  /\ UNCHANGED <<pageVars, tickets, scanLogs, now, uuids, scanTx, syncTx,
                 peerTx, isOnline, timers, pendingTickets, pendingScanLogs,
                 cachedTickets, devUuids, scanResult, jobs, serving, sched>>

\* the service worker handles MANUAL_SYNC: syncOfflineData opens the
\* database and asks the synced index for the key false, which is no valid
\* key; the request throws, nothing is sent, SYNC_ERROR is posted
SwSync(cause) ==
  /\ cause \in swInbox
  /\ swInbox' = swInbox \ {cause}
  /\ UNCHANGED <<pageVars, tickets, scanLogs, now, uuids, scanTx, syncTx,
                 peerTx, isOnline, timers, pendingTickets, pendingScanLogs,
                 cachedTickets, devUuids, scanResult, jobs, serving, sched>>

\* checkAndSync starts, from the interval or from the reconnect timer, and
\* tests isOnline
CheckOnline(j) ==
  /\ jobs[j].pc = "idle"
  /\ IF j = "timer"
     THEN timers > 0 /\ timers' = timers - 1
     ELSE ~sched.stopped /\ isOnline /\ timers' = timers
  /\ jobs' = [jobs EXCEPT ![j] =
                IF SchedOnline THEN [IdleJob EXCEPT !.pc = "count"]
                ELSE IdleJob]
  /\ UNCHANGED <<pageVars, tickets, scanLogs, now, uuids, scanTx, syncTx,
                 peerTx, isOnline, pendingTickets, pendingScanLogs,
                 cachedTickets, devUuids, scanResult, serving, swInbox,
                 sched>>

\* checkAndSync after getPendingSyncCount: performAutoSync is called when
\* something is pending
CheckCount(j) ==
  /\ jobs[j].pc = "count"
  /\ jobs' = [jobs EXCEPT ![j] =
                IF PendingTotal > 0 THEN [@ EXCEPT !.pc = "read"] ELSE IdleJob]
  /\ UNCHANGED <<pageVars, tickets, scanLogs, now, uuids, scanTx, syncTx,
                 peerTx, isOnline, timers, pendingTickets, pendingScanLogs,
                 cachedTickets, devUuids, scanResult, serving, swInbox,
                 sched>>

\* the report performManualSync returns
SyncReport(nt, nl, errs) ==
  [success |-> TRUE, ticketsSynced |-> nt, scanLogsSynced |-> nl,
   errors |-> errs, thrown |-> NoValue]

\* performManualSync rethrows the error of fetch
SyncThrown(msg) == [NoReport EXCEPT !.thrown = msg]

\* performManualSync after the two reads: nothing pending returns at once,
\* otherwise the request is sent
SyncRead(j) ==
  /\ jobs[j].pc = "read"
  /\ LET pt == GetPending(pendingTickets, TicketOrder)
         pl == GetPending(pendingScanLogs, LogOrder)
     IN jobs' = [jobs EXCEPT ![j] =
          IF Len(pt) = 0 /\ Len(pl) = 0
          THEN [IdleJob EXCEPT !.result = SyncReport(0, 0, <<>>)]
          ELSE [@ EXCEPT !.pc = "sent", !.batch = SyncData(pt, pl)]]
  /\ UNCHANGED <<pageVars, tickets, scanLogs, now, uuids, scanTx, syncTx,
                 peerTx, isOnline, timers, pendingTickets, pendingScanLogs,
                 cachedTickets, devUuids, scanResult, serving, swInbox,
                 sched>>

\* the request of job j reaches the server, which starts its transaction
Deliver(j) ==
  /\ jobs[j].pc = "sent"
  /\ isOnline
  /\ serving = NoValue
  /\ syncTx.pc \in {"idle", "done", "failed"}
  /\ syncTx' = AfterTicket([IdleSync EXCEPT !.batch = jobs[j].batch])
  /\ serving' = j
  /\ jobs' = [jobs EXCEPT ![j].pc = "wait"]
  /\ UNCHANGED <<pageVars, tickets, scanLogs, now, uuids, scanTx, peerTx,
                 isOnline, timers, pendingTickets, pendingScanLogs,
                 cachedTickets, devUuids, scanResult, swInbox, sched>>

\* a handling of the response that empties the queue of what was sent
MutReply(j) ==
  /\ jobs[j].pc = "wait"
  /\ serving = j
  /\ syncTx.pc = "done"
  /\ isOnline
  /\ LET result == SyncResponse(syncTx)
         NotSent(store, items) ==
           [id \in DOMAIN store \ {items[k].id : k \in DOMAIN items} |->
              store[id]]
     IN /\ pendingTickets' = NotSent(pendingTickets, jobs[j].batch.tickets)
        /\ pendingScanLogs' = NotSent(pendingScanLogs, jobs[j].batch.scanLogs)
        /\ jobs' = [jobs EXCEPT ![j] =
             [IdleJob EXCEPT !.result =
                SyncReport(Len(result.synced.tickets),
                           Len(result.synced.scanLogs), result.errors)]]
  /\ serving' = NoValue
  /\ UNCHANGED <<pageVars, tickets, scanLogs, now, uuids, scanTx, syncTx,
                 peerTx, isOnline, timers, cachedTickets, devUuids,
                 scanResult, swInbox, sched>>

\* the response arrives, response.ok and result.success: the rows marked
\* synced are deleted from the stores whose list of synced ids is not empty
Reply(j) ==
  /\ jobs[j].pc = "wait"
  /\ serving = j
  /\ syncTx.pc = "done"
  /\ isOnline
  /\ LET result == SyncResponse(syncTx)
     IN /\ pendingTickets' =
             IF Len(result.synced.tickets) > 0
             THEN ClearSynced(pendingTickets) ELSE pendingTickets
        /\ pendingScanLogs' =
             IF Len(result.synced.scanLogs) > 0
             THEN ClearSynced(pendingScanLogs) ELSE pendingScanLogs
        /\ jobs' = [jobs EXCEPT ![j] =
             [IdleJob EXCEPT !.result =
                SyncReport(Len(result.synced.tickets),
                           Len(result.synced.scanLogs), result.errors)]]
  /\ serving' = NoValue
  /\ UNCHANGED <<pageVars, tickets, scanLogs, now, uuids, scanTx, syncTx,
                 peerTx, isOnline, timers, cachedTickets, devUuids,
                 scanResult, swInbox, sched>>

\* the transaction of the request the device sent fails as a whole (the
\* database is lost, the transaction times out): nothing it wrote is kept
\* and the route answers 500
SyncAbort ==
  /\ serving # NoValue
  /\ syncTx.pc \notin {"idle", "done", "failed"}
  /\ syncTx' = [syncTx EXCEPT !.pc = "failed", !.i = 0, !.seen = NoValue,
                               !.wT = EmptyFn, !.wL = EmptyFn,
                               !.synced = NoSynced, !.errors = <<>>,
                               !.flipped = {}, !.kept = {}]
  /\ UNCHANGED <<tickets, scanLogs, now, uuids, scanTx, peerTx, devVars,
                 pageVars, sched>>

\* the response arrives and is not ok: performManualSync throws
ReplyError(j) ==
  /\ jobs[j].pc = "wait"
  /\ serving = j
  /\ syncTx.pc = "failed"
  /\ isOnline
  /\ jobs' = [jobs EXCEPT ![j] =
       [IdleJob EXCEPT !.result = SyncThrown("Sync failed")]]
  /\ serving' = NoValue
  /\ UNCHANGED <<pageVars, tickets, scanLogs, now, uuids, scanTx, syncTx,
                 peerTx, isOnline, timers, pendingTickets, pendingScanLogs,
                 cachedTickets, devUuids, scanResult, swInbox, sched>>

\* a failure after which the queues are emptied
MutSyncFail(j) ==
  /\ jobs[j].pc \in {"sent", "wait"}
  /\ ~isOnline
  /\ jobs' = [jobs EXCEPT ![j] =
       [IdleJob EXCEPT !.result = SyncThrown("Failed to fetch")]]
  /\ serving' = IF serving = j THEN NoValue ELSE serving
  /\ pendingTickets' = EmptyFn
  /\ pendingScanLogs' = EmptyFn
  /\ UNCHANGED <<pageVars, tickets, scanLogs, now, uuids, scanTx, syncTx,
                 peerTx, isOnline, timers, cachedTickets, devUuids,
                 scanResult, swInbox, sched>>

\* fetch rejects because the connection is gone: performManualSync throws,
\* performAutoSync logs the error
SyncFail(j) ==
  /\ jobs[j].pc \in {"sent", "wait"}
  /\ ~isOnline
  /\ jobs' = [jobs EXCEPT ![j] = [IdleJob EXCEPT !.result = SyncThrown("Failed to fetch")]]
  /\ serving' = IF serving = j THEN NoValue ELSE serving
  /\ UNCHANGED <<pageVars, tickets, scanLogs, now, uuids, scanTx, syncTx,
                 peerTx, isOnline, timers, pendingTickets, pendingScanLogs,
                 cachedTickets, devUuids, scanResult, swInbox, sched>>

\* an update of the cache entry that leaves usedAt as it was
MutUsedOffline(row, t) == [row EXCEPT !.status = "USED"]

\* updateCachedTicketStatus(id, "USED", now)
UsedOffline(row, t) == [row EXCEPT !.status = "USED", !.usedAt = t]

\* a failure of the offline scan that is not flagged as produced offline
MutOfflineFailure(code) ==
  [success |-> FALSE, error |-> code, isOffline |-> FALSE, scanLogId |-> NoLog]

\* the result performOfflineScan sets when it rejects the scan
OfflineFailure(code) ==
  [success |-> FALSE, error |-> code, isOffline |-> TRUE, scanLogId |-> NoLog]

\* performOfflineScan(qr) when no store operation fails
PerformOfflineScan(qr) ==
  /\ LET tid == CachedByQr(qr)
         lid == <<"dev", devUuids + 1>>
         t == OfflineTime(lid)
     IN IF tid = NoValue
        THEN /\ scanResult' = OfflineFailure("TICKET_NOT_FOUND")
             /\ UNCHANGED <<pendingScanLogs, cachedTickets, devUuids>>
        ELSE IF cachedTickets[tid].status # "ACTIVE"
        THEN /\ scanResult' =
                  OfflineFailure("TICKET_" \o cachedTickets[tid].status)
             /\ UNCHANGED <<pendingScanLogs, cachedTickets, devUuids>>
        ELSE /\ lid \in DeviceLogIds
             /\ pendingScanLogs' =
                  (lid :> Unsynced([id |-> lid, ticketId |-> tid,
                                    scannedAt |-> t,
                                    scannedBy |-> "Scanner App (Offline)"]))
                  @@ pendingScanLogs
             /\ cachedTickets' =
                  [cachedTickets EXCEPT ![tid] = UsedOffline(@, t)]
             /\ devUuids' = devUuids + 1
             /\ scanResult' = [success |-> TRUE, error |-> NoValue,
                               isOffline |-> TRUE, scanLogId |-> lid]
  /\ UNCHANGED <<tickets, scanLogs, now, uuids, scanTx, syncTx, peerTx,
                 isOnline, timers, pendingTickets, jobs, serving, swInbox,
                 sched>>

\* a scan made while the device is offline: processTicketScan goes to
\* performOfflineScan
OfflineScan(qr) ==
  /\ ~isOnline
  /\ PerformOfflineScan(qr)
  /\ UNCHANGED pageVars

\* the ticket form submitted while offline: the ticket is queued and cached
OfflineCreate(id, email) ==
  /\ ~isOnline
  /\ id \notin DOMAIN tickets
  /\ id \notin DOMAIN pendingTickets
  /\ id \notin DOMAIN cachedTickets
  /\ pendingTickets' =
       (id :> Unsynced(FormTicket(id, email))) @@ pendingTickets
  /\ cachedTickets' =
       (id :> CacheRow(id, SeedQr(id), "ACTIVE", NoTime)) @@ cachedTickets
  /\ UNCHANGED <<pageVars, tickets, scanLogs, now, uuids, scanTx, syncTx,
                 peerTx, isOnline, timers, pendingScanLogs, devUuids,
                 scanResult, jobs, serving, swInbox, sched>>

\* refreshTicketCache: the tickets on record are put into the cache
RefreshCache ==
  /\ isOnline
  /\ DOMAIN tickets # {}
  /\ cachedTickets' =
       [id \in DOMAIN tickets |->
          CacheRow(id, tickets[id].qrCode, tickets[id].status, tickets[id].usedAt)]
       @@ cachedTickets
  /\ cachedTickets' # cachedTickets
  /\ UNCHANGED <<pageVars, tickets, scanLogs, now, uuids, scanTx, syncTx,
                 peerTx, isOnline, timers, pendingTickets, pendingScanLogs,
                 devUuids, scanResult, jobs, serving, swInbox, sched>>

\* clearAllData: the three stores are emptied
ClearAll ==
  /\ \/ DOMAIN pendingTickets # {}
     \/ DOMAIN pendingScanLogs # {}
     \/ DOMAIN cachedTickets # {}
  /\ pendingTickets' = EmptyFn
  /\ pendingScanLogs' = EmptyFn
  /\ cachedTickets' = EmptyFn
  /\ UNCHANGED <<pageVars, tickets, scanLogs, now, uuids, scanTx, syncTx,
                 peerTx, isOnline, timers, devUuids, scanResult, jobs,
                 serving, swInbox, sched>>

----------------------------------------------------------------------------
\* The scan page: processTicketScan, with the busy flag and the duplicate
\* guard, called by the QR scanner through the onScan it holds.  A call
\* gives way at each await; each call in flight has the request slot of
\* its name.

\* a call of processTicketScan that is not running
IdleCall == [pc |-> "idle", qrCode |-> NoValue, isOnline |-> FALSE]

\* no camera scanner is running
NoCamera ==
  [on |-> FALSE, isProcessing |-> FALSE, lastScannedCode |-> "",
   isOnline |-> FALSE]

\* the scan page as it is mounted
NoPage ==
  /\ isProcessing = FALSE
  /\ lastScannedCode = ""
  /\ camera = NoCamera
  /\ calls = [k \in ScanSlots |-> IdleCall]

\* the state processTicketScan reads: an uploaded image is decoded by the
\* handler of the current render; the camera scanner calls the onScan of
\* the render in which startScanning was called
Closure(src) ==
  IF src = "camera"
  THEN [isProcessing |-> camera.isProcessing,
        lastScannedCode |-> camera.lastScannedCode,
        isOnline |-> camera.isOnline]
  ELSE [isProcessing |-> isProcessing, lastScannedCode |-> lastScannedCode,
        isOnline |-> isOnline]

\* useOnlineStatus: the online and offline events set isOnline
SetOnline ==
  /\ isOnline' = ~isOnline
  /\ UNCHANGED <<pageVars, tickets, scanLogs, now, uuids, scanTx, syncTx,
                 peerTx, timers, pendingTickets, pendingScanLogs,
                 cachedTickets, devUuids, scanResult, jobs, serving, swInbox,
                 sched>>

\* startScanning: html5QrCode.start is given a callback that calls the
\* onScan of this render
StartScanning ==
  /\ ~camera.on
  /\ camera' = [on |-> TRUE, isProcessing |-> isProcessing,
                lastScannedCode |-> lastScannedCode, isOnline |-> isOnline]
  /\ UNCHANGED <<tickets, scanLogs, now, uuids, scanTx, syncTx, peerTx,
                 devVars, isProcessing, lastScannedCode, calls, sched>>

\* stopScanning
StopScanning ==
  /\ camera.on
  /\ camera' = NoCamera
  /\ UNCHANGED <<tickets, scanLogs, now, uuids, scanTx, syncTx, peerTx,
                 devVars, isProcessing, lastScannedCode, calls, sched>>

\* the scanner decodes qr and calls onScan: processTicketScan up to its
\* first await.  The busy flag or the duplicate guard ends the call;
\* otherwise the flag is set, the payload is remembered and the call goes
\* to fetch or to performOfflineScan
Decoded(src, k, qr) ==
  /\ src = "camera" => camera.on
  /\ calls[k].pc = "idle"
  /\ scanTx[k].pc = "idle"
  /\ LET c == Closure(src)
     IN IF c.isProcessing \/ c.lastScannedCode = qr
        THEN UNCHANGED <<isProcessing, lastScannedCode, calls>>
        ELSE /\ isProcessing' = TRUE
             /\ lastScannedCode' = qr
             /\ calls' = [calls EXCEPT ![k] =
                  [pc |-> IF c.isOnline THEN "fetch" ELSE "offline",
                   qrCode |-> qr, isOnline |-> c.isOnline]]
  /\ UNCHANGED <<tickets, scanLogs, now, uuids, scanTx, syncTx, peerTx,
                 devVars, camera, sched>>

\* the request of call k reaches POST /api/scan
PageSend(k) ==
  /\ calls[k].pc = "fetch"
  /\ isOnline
  /\ scanTx[k].pc = "idle"
  /\ ScanBegin(k, calls[k].qrCode)

\* what the page shows for the response of POST /api/scan
PageResult(resp) ==
  IF resp.success
  THEN [success |-> TRUE, error |-> NoValue, isOffline |-> FALSE,
        scanLogId |-> resp.scanLogId]
  ELSE [success |-> FALSE, error |-> resp.error, isOffline |-> FALSE,
        scanLogId |-> NoLog]

\* the response arrives: the result is shown and the busy flag is cleared
PageReply(k) ==
  /\ calls[k].pc = "fetch"
  /\ scanTx[k].pc = "done"
  /\ isOnline
  /\ scanResult' = PageResult(scanTx[k].resp)
  /\ isProcessing' = FALSE
  /\ calls' = [calls EXCEPT ![k] = IdleCall]
  /\ scanTx' = [scanTx EXCEPT ![k] = IdleScan]
  /\ UNCHANGED <<tickets, scanLogs, now, uuids, syncTx, peerTx, isOnline,
                 timers, pendingTickets, pendingScanLogs, cachedTickets,
                 devUuids, jobs, serving, swInbox, lastScannedCode, camera,
                 sched>>

\* fetch rejects: the catch of processTicketScan.  The call went to fetch
\* because its isOnline was true, so the catch reports the network error
PageFetchFails(k) ==
  /\ calls[k].pc = "fetch"
  /\ calls[k].isOnline
  /\ ~isOnline
  /\ scanTx[k].pc \in {"idle", "done"}
  /\ scanResult' = [success |-> FALSE, error |-> "Network error",
                    isOffline |-> FALSE, scanLogId |-> NoLog]
  /\ isProcessing' = FALSE
  /\ calls' = [calls EXCEPT ![k] = IdleCall]
  /\ scanTx' = [scanTx EXCEPT ![k] = IdleScan]
  /\ UNCHANGED <<tickets, scanLogs, now, uuids, syncTx, peerTx, isOnline,
                 timers, pendingTickets, pendingScanLogs, cachedTickets,
                 devUuids, jobs, serving, swInbox, lastScannedCode, camera,
                 sched>>

\* call k runs performOfflineScan and clears the busy flag
PageOffline(k) ==
  /\ calls[k].pc = "offline"
  /\ PerformOfflineScan(calls[k].qrCode)
  /\ isProcessing' = FALSE
  /\ calls' = [calls EXCEPT ![k] = IdleCall]
  /\ UNCHANGED <<lastScannedCode, camera>>

\* a store operation of performOfflineScan throws: getCachedTicketByQR,
\* addPendingScanLog or, after the scan log is stored,
\* updateCachedTicketStatus; the catch reports OFFLINE_ERROR
PageOfflineThrows(k, op) ==
  /\ calls[k].pc = "offline"
  /\ LET tid == CachedByQr(calls[k].qrCode)
         lid == <<"dev", devUuids + 1>>
     IN IF op = "get"
        THEN UNCHANGED <<pendingScanLogs, devUuids>>
        ELSE /\ tid # NoValue
             /\ cachedTickets[tid].status = "ACTIVE"
             /\ lid \in DeviceLogIds
             /\ devUuids' = devUuids + 1
             /\ pendingScanLogs' =
                  IF op = "add" THEN pendingScanLogs
                  ELSE (lid :> Unsynced([id |-> lid, ticketId |-> tid,
                                         scannedAt |-> OfflineTime(lid),
                                         scannedBy |-> "Scanner App (Offline)"]))
                       @@ pendingScanLogs
  /\ scanResult' = OfflineFailure("OFFLINE_ERROR")
  /\ isProcessing' = FALSE
  /\ calls' = [calls EXCEPT ![k] = IdleCall]
  /\ UNCHANGED <<tickets, scanLogs, now, uuids, scanTx, syncTx, peerTx,
                 isOnline, timers, pendingTickets, cachedTickets, jobs,
                 serving, swInbox, lastScannedCode, camera, sched>>

\* resetScan: the result is dismissed and the guard forgets its payload
ResetScan ==
  /\ scanResult # NoScanResult \/ lastScannedCode # ""
  /\ scanResult' = NoScanResult
  /\ lastScannedCode' = ""
  /\ UNCHANGED <<tickets, scanLogs, now, uuids, scanTx, syncTx, peerTx,
                 isOnline, timers, pendingTickets, pendingScanLogs,
                 cachedTickets, devUuids, jobs, serving, swInbox,
                 isProcessing, camera, calls, sched>>

----------------------------------------------------------------------------
\* The local store on its own: the operations of indexedDBOperations, in
\* any order.

\* a count that takes every row of the store
MutCountUnsynced(store) == Cardinality(DOMAIN store)

\* where("synced").equals(0).count()
CountUnsynced(store) ==
  Cardinality({id \in DOMAIN store : store[id].synced = 0})

\* getPendingSyncCount()
GetPendingSyncCount ==
  [tickets |-> CountUnsynced(pendingTickets),
   scanLogs |-> CountUnsynced(pendingScanLogs),
   total |-> CountUnsynced(pendingTickets) + CountUnsynced(pendingScanLogs)]

\* the variables no store operation touches
NotStore ==
  <<tickets, scanLogs, now, uuids, scanTx, syncTx, peerTx, isOnline, timers,
    devUuids, scanResult, jobs, serving, swInbox, pageVars, sched>>

\* addPendingTicket(ticket)
AddPendingTicket(id) ==
  /\ id \notin DOMAIN pendingTickets
  /\ pendingTickets' =
       (id :> Unsynced(FormTicket(id, NoValue))) @@ pendingTickets
  /\ UNCHANGED <<NotStore, pendingScanLogs, cachedTickets>>

\* addPendingScanLog(scanLog)
AddPendingScanLog(lid, tid) ==
  /\ lid \notin DOMAIN pendingScanLogs
  /\ pendingScanLogs' =
       (lid :> Unsynced([id |-> lid, ticketId |-> tid,
                         scannedAt |-> OfflineTime(lid),
                         scannedBy |-> "Scanner App (Offline)"]))
       @@ pendingScanLogs
  /\ UNCHANGED <<NotStore, pendingTickets, cachedTickets>>

\* update(id, {synced: 1}) on a store
MarkAsSynced(store, id) == [store EXCEPT ![id].synced = 1]

\* markTicketAsSynced(id)
MarkTicketAsSynced(id) ==
  /\ id \in DOMAIN pendingTickets
  /\ pendingTickets' = MarkAsSynced(pendingTickets, id)
  /\ UNCHANGED <<NotStore, pendingScanLogs, cachedTickets>>

\* markScanLogAsSynced(id)
MarkScanLogAsSynced(lid) ==
  /\ lid \in DOMAIN pendingScanLogs
  /\ pendingScanLogs' = MarkAsSynced(pendingScanLogs, lid)
  /\ UNCHANGED <<NotStore, pendingTickets, cachedTickets>>

\* clearSyncedTickets()
ClearSyncedTickets ==
  /\ pendingTickets' = ClearSynced(pendingTickets)
  /\ UNCHANGED <<NotStore, pendingScanLogs, cachedTickets>>

\* clearSyncedScanLogs()
ClearSyncedScanLogs ==
  /\ pendingScanLogs' = ClearSynced(pendingScanLogs)
  /\ UNCHANGED <<NotStore, pendingTickets, cachedTickets>>

\* cacheTicket(ticket): put
CacheTicket(id, st) ==
  /\ cachedTickets' =
       (id :> CacheRow(id, SeedQr(id), st, IF st = "USED" THEN 0 ELSE NoTime))
       @@ cachedTickets
  /\ UNCHANGED <<NotStore, pendingTickets, pendingScanLogs>>

\* a device that does nothing: the state of the device in the
\* specifications of the server alone
NoDevice ==
  /\ isOnline = FALSE
  /\ timers = 0
  /\ pendingTickets = EmptyFn
  /\ pendingScanLogs = EmptyFn
  /\ cachedTickets = EmptyFn
  /\ devUuids = 0
  /\ scanResult = NoScanResult
  /\ jobs = [j \in JobSlots |-> IdleJob]
  /\ serving = NoValue
  /\ swInbox = {}
  /\ sched = Running
  /\ NoPage

----------------------------------------------------------------------------
\* The specifications.

InitWith(ids) ==
  /\ tickets \in Seeded(ids)
  /\ scanLogs = EmptyFn
  /\ now = ServerEpoch
  /\ uuids = 0
  /\ scanTx = [s \in ScanSlots |-> IdleScan]
  /\ syncTx = IdleSync
  /\ peerTx = IdleSync
  /\ NoDevice

ScanOn(slots) ==
  \/ \E s \in slots, qr \in QrCodes : ScanBegin(s, qr)
  \/ \E s \in slots : ScanWrite(s)

ScanNext == ScanOn(ScanSlots)

SyncNext ==
  \/ \E b \in Batches : SyncBegin(b)
  \/ SyncTicketFind
  \/ SyncTicketCreate
  \/ SyncLogFind
  \/ SyncLogTicket
  \/ SyncLogWrite
  \/ SyncCommit

Next == ScanNext \/ SyncNext

\* T2 is left for the reconciliation to create
Init == InitWith({"T1"})
InitScan == InitWith(TicketIds)

\* scans and reconciliations of every device, interleaved
Spec == Init /\ [][Next]_vars
\* the reconciliation requests alone, one after the other
SpecSync == Init /\ [][SyncNext]_vars
\* the scan requests alone, two of them in flight
SpecScan == InitScan /\ [][ScanNext]_vars

\* the device starts online or offline, with an empty cache or with T1
\* cached as ACTIVE, which the system of record may no longer agree with
InitDevice ==
  /\ tickets \in Seeded({"T1"})
  /\ scanLogs = EmptyFn
  /\ now = ServerEpoch
  /\ uuids = 0
  /\ scanTx = [s \in ScanSlots |-> IdleScan]
  /\ syncTx = IdleSync
  /\ peerTx = IdleSync
  /\ isOnline \in BOOLEAN
  /\ timers = 0
  /\ pendingTickets = EmptyFn
  /\ pendingScanLogs = EmptyFn
  /\ cachedTickets \in {EmptyFn, "T1" :> CacheRow("T1", "Q1", "ACTIVE", NoTime)}
  /\ devUuids = 0
  /\ scanResult = NoScanResult
  /\ jobs = [j \in JobSlots |-> IdleJob]
  /\ serving = NoValue
  /\ swInbox = {}
  /\ sched = Running
  /\ NoPage

\* the scan page opens online or offline on a device that has cached the
\* ticket T1, which is ACTIVE on record; Q2 is the code of no ticket
InitPage ==
  /\ tickets = "T1" :> SeedTicket("T1", "Q1", "ACTIVE")
  /\ scanLogs = EmptyFn
  /\ now = ServerEpoch
  /\ uuids = 0
  /\ scanTx = [s \in ScanSlots |-> IdleScan]
  /\ syncTx = IdleSync
  /\ peerTx = IdleSync
  /\ isOnline \in BOOLEAN
  /\ timers = 0
  /\ pendingTickets = EmptyFn
  /\ pendingScanLogs = EmptyFn
  /\ cachedTickets = "T1" :> CacheRow("T1", "Q1", "ACTIVE", NoTime)
  /\ devUuids = 0
  /\ scanResult = NoScanResult
  /\ jobs = [j \in JobSlots |-> IdleJob]
  /\ serving = NoValue
  /\ swInbox = {}
  /\ sched = Running
  /\ NoPage

\* two overlapping reconciliations with the same body
PeersNext ==
  \/ \E b \in Batches : SyncTwice(b)
  \/ Switch
  \/ SyncTicketFind
  \/ SyncTicketCreate
  \/ SyncLogFind
  \/ SyncLogTicket
  \/ SyncLogWrite
  \/ SyncCommit

\* the statements of the reconciliation the server is running
ServerNext ==
  \/ SyncTicketFind
  \/ SyncTicketCreate
  \/ SyncLogFind
  \/ SyncLogTicket
  \/ SyncLogWrite
  \/ SyncCommit

\* what the user and the browser do to the device
UserNext ==
  \/ GoOnline
  \/ GoOffline
  \/ \E qr \in QrCodes : OfflineScan(qr)
  \/ \E email \in {NoValue, "a@x.io"} : OfflineCreate("T2", email)
  \/ RefreshCache

\* checkAndSync and the reconciliation it starts, for the calls in slots
JobNext(slots) ==
  \/ \E j \in slots : CheckOnline(j)
  \/ \E j \in slots : CheckCount(j)
  \/ \E j \in slots : SyncRead(j)
  \/ \E j \in slots : Deliver(j)
  \/ \E j \in slots : Reply(j)
  \/ \E j \in slots : SyncFail(j)

\* the triggers of the service worker
SwNext ==
  \/ SyncButton
  \/ \E cause \in {"online", "button"} : SwSync(cause)

\* the request fails on the server
FailNext ==
  \/ SyncAbort
  \/ \E j \in JobSlots : ReplyError(j)

DeviceNext == UserNext \/ JobNext({"timer"}) \/ ServerNext \/ FailNext

\* the scheduler at work on a queue of scan logs of T1, which the user may
\* wipe with clearAllData
SchedNext ==
  \/ GoOnline
  \/ GoOffline
  \/ OfflineScan("Q1")
  \/ ClearAll
  \/ JobNext(JobSlots)
  \/ SwNext
  \/ SyncLogFind
  \/ SyncLogTicket
  \/ SyncLogWrite
  \/ SyncCommit

\* the scan page at work: payloads from the camera and from uploaded
\* images, the authoritative scan while online, the offline scan otherwise
PageNext ==
  \/ SetOnline
  \/ StartScanning
  \/ StopScanning
  \/ \E src \in {"camera", "upload"}, k \in ScanSlots, qr \in QrCodes :
       Decoded(src, k, qr)
  \/ \E k \in ScanSlots : PageSend(k)
  \/ \E k \in ScanSlots : ScanWrite(k)
  \/ \E k \in ScanSlots : PageReply(k)
  \/ \E k \in ScanSlots : PageFetchFails(k)
  \/ \E k \in ScanSlots : PageOffline(k)
  \/ \E k \in ScanSlots, op \in {"get", "add", "update"} :
       PageOfflineThrows(k, op)
  \/ ResetScan

\* the operations of the local store, called in any order
StoreNext ==
  \/ \E id \in TicketIds : AddPendingTicket(id)
  \/ \E lid \in DeviceLogIds : AddPendingScanLog(lid, "T1")
  \/ \E id \in TicketIds : MarkTicketAsSynced(id)
  \/ \E lid \in DeviceLogIds : MarkScanLogAsSynced(lid)
  \/ ClearSyncedTickets
  \/ ClearSyncedScanLogs
  \/ \E id \in TicketIds, st \in {"ACTIVE", "USED"} : CacheTicket(id, st)
  \/ ClearAll

\* one device and the reconciliation endpoint: scans and tickets made
\* offline, and the reconciliation each reconnection starts
SpecDevice == InitDevice /\ [][DeviceNext]_vars
\* the scheduler of the device: the interval, the reconnect timer and the
\* service worker, with the reconciliations they start
SpecSched == InitDevice /\ [][SchedNext]_vars
\* two reconciliation requests with the same body, in flight together
SpecPeers == Init /\ [][PeersNext]_vars
\* the scan page of one device and the authoritative scan endpoint
SpecPage == InitPage /\ [][PageNext]_vars
\* the local store of one device
SpecStore == InitDevice /\ [][StoreNext]_vars

\* the scheduler once initializeAutoSync has run, with the scans made offline
LiveNext ==
  \/ GoOnline
  \/ GoOffline
  \/ OfflineScan("Q1")
  \/ JobNext(JobSlots)
  \/ SyncLogFind
  \/ SyncLogTicket
  \/ SyncLogWrite
  \/ SyncCommit

\* the interval and the timer fire, a callback that can go on after its
\* await does, the server runs its statements and the network delivers
\* while the device is online
Fairness ==
  /\ \A j \in JobSlots :
       /\ WF_vars(CheckOnline(j))
       /\ WF_vars(CheckCount(j))
       /\ WF_vars(SyncRead(j))
       /\ WF_vars(Deliver(j))
       /\ WF_vars(Reply(j))
       /\ WF_vars(SyncFail(j))
  /\ WF_vars(SyncLogFind)
  /\ WF_vars(SyncLogTicket)
  /\ WF_vars(SyncLogWrite)
  /\ WF_vars(SyncCommit)

SpecLive == InitDevice /\ [][LiveNext]_vars /\ Fairness

\* the scheduler and its cleanup
CleanupNext == LiveNext \/ Cleanup

SpecCleanup == InitDevice /\ [][CleanupNext]_vars

----------------------------------------------------------------------------
\* The authoritative scan: claims.

\* slot s answered its request in this step
ScanAnswered(s) == scanTx'[s] # scanTx[s] /\ scanTx'[s].pc = "done"

\* C1: a scan of a qrCode that starts after an authoritative scan of the
\* same ticket has answered success is rejected with TICKET_USED (409),
\* and a scan is rejected only for a ticket that is not ACTIVE: of two
\* scans of an ACTIVE ticket made one after the other the first succeeds
\* and the second fails with TICKET_USED.
C1_SecondScanIsUsed ==
  \A s \in ScanSlots :
    scanTx[s].pc = "done" =>
      /\ scanTx[s].afterSuccess =>
           /\ ~scanTx[s].resp.success
           /\ scanTx[s].resp.code = "TICKET_USED"
           /\ scanTx[s].resp.http = 409
      /\ (~scanTx[s].resp.success /\ scanTx[s].ticketId # NoValue) =>
           tickets[scanTx[s].ticketId].status # "ACTIVE"

\* C1 witness: a second scan, started after a successful one of the same
\* ticket, has been answered
C1_Witness ==
  \E s \in ScanSlots :
    /\ scanTx[s].pc = "done"
    /\ scanTx[s].afterSuccess
    /\ scanTx[s].resp.code = "TICKET_USED"

\* C2: whatever the interleaving of the scan transactions, a ticket never
\* has two scan logs written by the authoritative path: at most one scan
\* of a ticket succeeds.
C2_AtMostOneSuccess ==
  \A tid \in DOMAIN tickets : Cardinality(AuthoritativeLogs(tid)) <= 1

\* C3: a scan that answers success has flipped the ticket from ACTIVE to
\* USED and created exactly one scan log, which references the ticket; a
\* scan that answers a failure has changed no ticket and created no scan
\* log.
C3_ScanEffects ==
  [][\A s \in ScanSlots :
       ScanAnswered(s) =>
         IF scanTx'[s].resp.success
         THEN LET tid == scanTx'[s].ticketId
                  new == DOMAIN scanLogs' \ DOMAIN scanLogs
              IN /\ tickets[tid].status = "ACTIVE"
                 /\ tickets'[tid].status = "USED"
                 /\ \A o \in DOMAIN tickets \ {tid} : tickets'[o] = tickets[o]
                 /\ Cardinality(new) = 1
                 /\ \A l \in new : scanLogs'[l].ticketId = tid
                 /\ \A l \in DOMAIN scanLogs : scanLogs'[l] = scanLogs[l]
         ELSE tickets' = tickets /\ scanLogs' = scanLogs]_vars

\* C4: the status of a ticket on record only ever changes from ACTIVE to
\* USED, and a ticket that is USED, CANCELLED or INVALID keeps its status
\* and its usedAt in every later state.
C4_StatusMonotonic ==
  [][\A tid \in DOMAIN tickets :
       /\ tid \in DOMAIN tickets'
       /\ tickets'[tid].status # tickets[tid].status =>
            tickets[tid].status = "ACTIVE" /\ tickets'[tid].status = "USED"
       /\ tickets[tid].status # "ACTIVE" =>
            tickets'[tid].usedAt = tickets[tid].usedAt]_vars

----------------------------------------------------------------------------
\* The reconciliation: claims.

\* the transaction commits in this step
SyncCommits == syncTx.pc = "commit" /\ syncTx'.pc = "done"

\* the scan log loop finishes the write of its current item in this step
SyncWrites == syncTx.pc = "logWrite" /\ syncTx' # syncTx

\* the ticket loop finishes its current item in this step
SyncTicketDone ==
  /\ syncTx.pc \in {"ticket", "create"}
  /\ syncTx' # syncTx
  /\ syncTx'.pc \notin {"ticket", "create"} \/ syncTx'.i # syncTx.i

CurrentLog == syncTx.batch.scanLogs[syncTx.i]
CurrentTicket == syncTx.batch.tickets[syncTx.i]

\* C5: the retry of a reconciliation request, with the same body, changes
\* no ticket and no scan log of the system of record when it commits, and
\* reports the same synced ids as the first submission.
C5_RetryIdempotent ==
  [][(SyncCommits /\ syncTx.retry) =>
       /\ tickets' = tickets
       /\ scanLogs' = scanLogs
       /\ syncTx'.synced = syncTx.prevSynced]_vars

\* C5 witness: a retry has been answered whose first submission created a
\* scan log and flipped its ticket
C5_Witness ==
  /\ syncTx.pc = "done"
  /\ syncTx.retry
  /\ \E k \in DOMAIN syncTx.batch.scanLogs :
       LET item == syncTx.batch.scanLogs[k]
       IN /\ item.id \in Range(syncTx.synced.scanLogs)
          /\ item.id \in DOMAIN scanLogs
          /\ tickets[item.ticketId].usedAt = item.scannedAt

\* C6: a scan log reconciled for a ticket that was read USED, CANCELLED or
\* INVALID is created and pushed to synced.scanLogs while the ticket row
\* stays as it is; and at the commit a ticket for which the transaction
\* only kept such scan logs has the status and the usedAt it had before.
C6_ConflictKeepsTicket ==
  [][/\ (SyncWrites /\ syncTx.seen # "ACTIVE") =>
          /\ CurrentLog.id \in DOMAIN ViewLogs'
          /\ ViewLogs'[CurrentLog.id].ticketId = CurrentLog.ticketId
          /\ ViewLogs'[CurrentLog.id].scannedAt = CurrentLog.scannedAt
          /\ syncTx'.synced.scanLogs = Append(syncTx.synced.scanLogs, CurrentLog.id)
          /\ syncTx'.errors = syncTx.errors
          /\ ViewTickets' = ViewTickets
     /\ SyncCommits =>
          \A lid \in syncTx.kept :
            /\ lid \in DOMAIN scanLogs'
            /\ LET tid == scanLogs'[lid].ticketId
               IN (\A f \in syncTx.flipped : scanLogs'[f].ticketId # tid) =>
                    /\ tickets'[tid].status = tickets[tid].status
                    /\ tickets'[tid].usedAt = tickets[tid].usedAt]_vars

\* C6 witness: a reconciliation has stored a scan log for a ticket that an
\* earlier scan log had already flipped, and usedAt is still the earlier one
C6_Witness ==
  /\ syncTx.pc = "done"
  /\ \E lid \in syncTx.kept :
       /\ lid \in DOMAIN scanLogs
       /\ lid \in Range(syncTx.synced.scanLogs)
       /\ tickets[scanLogs[lid].ticketId].status = "USED"
       /\ \E o \in DOMAIN scanLogs :
            /\ o # lid
            /\ scanLogs[o].ticketId = scanLogs[lid].ticketId
            /\ tickets[scanLogs[lid].ticketId].usedAt = scanLogs[o].scannedAt
            /\ scanLogs[o].scannedAt # scanLogs[lid].scannedAt

\* C7: a scan log reconciled for a ticket that was read ACTIVE makes the
\* ticket USED with usedAt equal to the scannedAt of that scan log, which
\* is not the server time of the reconciliation; the committed row shows
\* the same.
C7_UsedAtIsScanTime ==
  [][/\ (SyncWrites /\ syncTx.seen = "ACTIVE") =>
          /\ ViewTickets'[CurrentLog.ticketId].status = "USED"
          /\ ViewTickets'[CurrentLog.ticketId].usedAt = CurrentLog.scannedAt
          /\ ViewTickets'[CurrentLog.ticketId].usedAt # now
     /\ SyncCommits =>
          \A lid \in syncTx.flipped :
            /\ tickets'[scanLogs'[lid].ticketId].status = "USED"
            /\ tickets'[scanLogs'[lid].ticketId].usedAt = scanLogs'[lid].scannedAt]_vars

\* C7 witness: a reconciliation has flipped a ticket
C7_Witness ==
  /\ syncTx.pc = "done"
  /\ \E lid \in syncTx.flipped :
       /\ tickets[scanLogs[lid].ticketId].status = "USED"
       /\ tickets[scanLogs[lid].ticketId].usedAt = OfflineTime(lid)

\* what a merge report says about scan log lid
ReportOn(resp, lid) ==
  [synced |-> lid \in Range(resp.synced.scanLogs),
   errors |-> {e.error : e \in {x \in Range(resp.errors) :
                                   x.type = "scanLog" /\ x.id = lid}}]

\* C8: the merge report tells a scan log that was accepted without a status
\* change from one whose acceptance flipped its ticket: it never says the
\* same about two such scan logs.
C8_ReportTellsConflicts ==
  syncTx.pc = "done" =>
    \A a \in syncTx.flipped, b \in syncTx.kept :
      ReportOn(SyncResponse(syncTx), a) # ReportOn(SyncResponse(syncTx), b)

\* the scan log loop looks up the ticket of its current item in this step
SyncChecksTicket == syncTx.pc = "logTicket" /\ syncTx' # syncTx

\* C9: a scan log item whose id is new and whose ticketId matches no ticket
\* is not created and not pushed to synced.scanLogs, and gets one entry in
\* errors, of type scanLog, with its id and the text "Associated ticket not
\* found"; the commit does not put it on record either.
C9_OrphanReported ==
  [][/\ (/\ SyncChecksTicket
          /\ CurrentLog.id \notin DOMAIN ViewLogs
          /\ CurrentLog.ticketId \notin DOMAIN ViewTickets) =>
          /\ ViewLogs' = ViewLogs
          /\ ViewTickets' = ViewTickets
          /\ syncTx'.synced = syncTx.synced
          /\ syncTx'.errors =
               Append(syncTx.errors,
                      [type |-> "scanLog", id |-> CurrentLog.id,
                       error |-> "Associated ticket not found"])
     /\ SyncCommits =>
          \A k \in DOMAIN syncTx.errors :
            LET e == syncTx.errors[k]
            IN (e.type = "scanLog" /\ e.id \notin DOMAIN scanLogs) =>
                 /\ e.id \notin DOMAIN scanLogs'
                 /\ e.id \notin Range(syncTx'.synced.scanLogs)]_vars

\* C9 witness: a reconciliation has been answered that stored one scan log
\* and refused another, new one, whose ticket is not on record
C9_Witness ==
  /\ syncTx.pc = "done"
  /\ Len(syncTx.synced.scanLogs) > 0
  /\ \E k \in DOMAIN syncTx.batch.scanLogs :
       LET item == syncTx.batch.scanLogs[k]
       IN /\ item.ticketId \notin DOMAIN tickets
          /\ item.id \notin DOMAIN scanLogs
          /\ \E e \in Range(syncTx.errors) :
               e.type = "scanLog" /\ e.id = item.id

\* the row of a ticket stored with every field as submitted
AsSubmitted(item) ==
  [id |-> item.id, eventName |-> item.eventName,
   ticketType |-> item.ticketType, price |-> item.price,
   qrCode |-> item.qrCode, holderName |-> item.holderName,
   holderEmail |-> item.holderEmail,
   createdAt |-> item.createdAt, status |-> "ACTIVE", usedAt |-> NoTime]

\* C10: a ticket item whose id is on record leaves the tickets as they are,
\* any other ticket item adds a ticket with exactly the submitted fields,
\* and in both cases the id is pushed to synced.tickets.
C10_TicketItem ==
  [][SyncTicketDone =>
       /\ ViewTickets' =
            IF CurrentTicket.id \in DOMAIN ViewTickets THEN ViewTickets
            ELSE (CurrentTicket.id :> AsSubmitted(CurrentTicket)) @@ ViewTickets
       /\ syncTx'.synced.tickets = Append(syncTx.synced.tickets, CurrentTicket.id)]_vars

\* C10 amended: a ticket item whose id is on record leaves the tickets as
\* they are and its id is pushed to synced.tickets; an item with a new id
\* and a qrCode no ticket holds adds a ticket with the submitted fields,
\* an empty holderEmail stored as null, and its id is pushed too; an item
\* with a new id and a qrCode another ticket holds adds nothing, is not
\* pushed and gets an entry in errors.
C10_TicketItemAmended ==
  [][SyncTicketDone =>
       IF CurrentTicket.id \in DOMAIN ViewTickets
       THEN /\ ViewTickets' = ViewTickets
            /\ syncTx'.synced.tickets = Append(syncTx.synced.tickets, CurrentTicket.id)
            /\ syncTx'.errors = syncTx.errors
       ELSE IF \A o \in DOMAIN ViewTickets :
                 ViewTickets[o].qrCode # CurrentTicket.qrCode
       THEN /\ ViewTickets' =
                 (CurrentTicket.id :>
                    [AsSubmitted(CurrentTicket) EXCEPT
                       !.holderEmail = IF @ = "" THEN NoValue ELSE @])
                 @@ ViewTickets
            /\ syncTx'.synced.tickets = Append(syncTx.synced.tickets, CurrentTicket.id)
            /\ syncTx'.errors = syncTx.errors
       ELSE /\ ViewTickets' = ViewTickets
            /\ syncTx'.synced.tickets = syncTx.synced.tickets
            /\ Len(syncTx'.errors) = Len(syncTx.errors) + 1
            /\ syncTx'.errors[Len(syncTx'.errors)].type = "ticket"
            /\ syncTx'.errors[Len(syncTx'.errors)].id = CurrentTicket.id]_vars

\* C10 witness: a reconciliation has been answered that created a ticket
\* submitted with an empty holderEmail; the stored holderEmail is null
C10_Witness ==
  /\ syncTx.pc = "done"
  /\ \E k \in DOMAIN syncTx.batch.tickets :
       LET item == syncTx.batch.tickets[k]
       IN /\ item.holderEmail = ""
          /\ item.id \in Range(syncTx.synced.tickets)
          /\ item.id \in DOMAIN tickets
          /\ tickets[item.id].qrCode = item.qrCode
          /\ tickets[item.id].createdAt = item.createdAt
          /\ tickets[item.id].holderEmail = NoValue

\* a loop finishes its current item by catching a throw in this step
SyncItemFails ==
  /\ syncTx.pc \in {"create", "logTicket", "logWrite"}
  /\ Len(syncTx'.errors) = Len(syncTx.errors) + 1

\* the ids of the items of type t that have an entry in errors
ErrorIds(tx, t) == {e.id : e \in {x \in Range(tx.errors) : x.type = t}}

----------------------------------------------------------------------------
\* The device: claims.

\* call j of checkAndSync got the response of its reconciliation in this step
Replied(j) ==
  jobs[j].pc = "wait" /\ jobs'[j].pc = "idle" /\ jobs'[j].result.success

\* the request of call j failed as a whole in this step: fetch rejected or
\* the response was not ok
Failed(j) ==
  /\ jobs[j].pc \in {"sent", "wait"}
  /\ jobs'[j].pc = "idle"
  /\ ~isOnline \/ syncTx.pc = "failed"

\* the ids a store holds with synced = 0
PendingIds(store) == {id \in DOMAIN store : store[id].synced = 0}

\* C12: after a reconciliation whose response reports success, no id of
\* synced.tickets or synced.scanLogs is pending on the device any more, and
\* the number of pending rows has dropped by the number of confirmed ids.
C12_ConfirmedIsPruned ==
  [][\A j \in JobSlots : Replied(j) =>
       LET result == SyncResponse(syncTx)
       IN /\ \A id \in Range(result.synced.tickets) :
               id \notin PendingIds(pendingTickets')
          /\ \A id \in Range(result.synced.scanLogs) :
               id \notin PendingIds(pendingScanLogs')
          /\ PendingTotal' = PendingTotal - Len(result.synced.tickets)
                                          - Len(result.synced.scanLogs)]_vars

\* the step is clearAllData
ClearsAll ==
  /\ pendingTickets' = EmptyFn /\ pendingScanLogs' = EmptyFn
  /\ cachedTickets' = EmptyFn
  /\ UNCHANGED <<jobs, serving, isOnline, scanResult>>

\* C13: apart from clearAllData, a step removes a pending ticket or a
\* pending scan log from the device only if the system of record holds a
\* Ticket / ScanLog with that id at that moment.
C13_NoCheckInLost ==
  [][~ClearsAll =>
       /\ \A id \in DOMAIN pendingTickets :
            id \notin DOMAIN pendingTickets' => id \in DOMAIN tickets
       /\ \A id \in DOMAIN pendingScanLogs :
            id \notin DOMAIN pendingScanLogs' => id \in DOMAIN scanLogs]_vars

\* a reconciliation stored one scan log and refused another, the device
\* has pruned, and the refused scan log, not on record, is still queued
C13_Witness ==
  \E j \in JobSlots :
    /\ jobs[j].pc = "idle"
    /\ jobs[j].result.success
    /\ jobs[j].result.scanLogsSynced > 0
    /\ Len(jobs[j].result.errors) > 0
    /\ \E id \in DOMAIN pendingScanLogs : id \notin DOMAIN scanLogs

\* the scan that made lid was accepted offline and its ticket is on record
AcceptedOffline(lid) ==
  /\ lid \in DOMAIN pendingScanLogs
  /\ pendingScanLogs[lid].row.ticketId \in DOMAIN tickets

\* C14: once the device is online for good, every scan accepted offline
\* whose ticket is on record eventually has a ScanLog with its id on record.
C14_EventualDelivery ==
  \A lid \in DeviceLogIds :
    <>[]isOnline => [](AcceptedOffline(lid) => <>(lid \in DOMAIN scanLogs))

\* the device is online, and a scan it accepted offline is on record under
\* the id the device gave it
C14_Witness ==
  /\ isOnline
  /\ \E lid \in DOMAIN pendingScanLogs :
       /\ lid \in DOMAIN scanLogs
       /\ scanLogs[lid].ticketId = pendingScanLogs[lid].row.ticketId

\* the pending store the items of a type are queued in
QueueOf(type) == IF type = "ticket" THEN pendingTickets ELSE pendingScanLogs
\* and what it holds after the step
QueueAfter(type) ==
  IF type = "ticket" THEN pendingTickets' ELSE pendingScanLogs'

\* call j of checkAndSync sent the request of its reconciliation in this step
Submits(j) == jobs[j].pc = "read" /\ jobs'[j].pc = "sent"

\* the ids of the items of a request, by type
SentIds(batch, type) ==
  IF type = "ticket" THEN {batch.tickets[k].id : k \in DOMAIN batch.tickets}
  ELSE {batch.scanLogs[k].id : k \in DOMAIN batch.scanLogs}

\* C15: a pending write the merge report has an error for is still queued
\* with synced = 0 when the reconciliation has ended, stays so, and each
\* later pass submits every write queued with synced = 0.
C15_RefusedIsRetried ==
  [][/\ \A j \in JobSlots : Replied(j) =>
          \A k \in DOMAIN jobs'[j].result.errors :
            LET e == jobs'[j].result.errors[k]
            IN e.id \in PendingIds(QueueAfter(e.type))
     /\ ~ClearsAll =>
          \A type \in {"ticket", "scanLog"} :
            \A id \in PendingIds(QueueOf(type)) :
              id \in PendingIds(QueueAfter(type))
     /\ \A j \in JobSlots : Submits(j) =>
          \A type \in {"ticket", "scanLog"} :
            PendingIds(QueueOf(type)) = SentIds(jobs'[j].batch, type)]_vars

\* a reconciliation has ended with an error for a scan log, which is still
\* queued with synced = 0
C15_Witness ==
  \E j \in JobSlots :
    /\ jobs[j].pc = "idle"
    /\ jobs[j].result.success
    /\ \E k \in DOMAIN jobs[j].result.errors :
         LET e == jobs[j].result.errors[k]
         IN /\ e.type = "scanLog"
            /\ e.id \in PendingIds(pendingScanLogs)

\* C16: when the request of a reconciliation fails as a whole, the pending
\* queues are as they were before the attempt: the failure changes
\* nothing, every item that was sent is still queued with synced = 0, and
\* the caller gets one error for the attempt and no report.
C16_FailureKeepsQueues ==
  [][\A j \in JobSlots : Failed(j) =>
       /\ pendingTickets' = pendingTickets
       /\ pendingScanLogs' = pendingScanLogs
       /\ SentIds(jobs[j].batch, "ticket") \subseteq PendingIds(pendingTickets')
       /\ SentIds(jobs[j].batch, "scanLog") \subseteq
            PendingIds(pendingScanLogs')
       /\ jobs'[j].result.thrown # NoValue
       /\ ~jobs'[j].result.success
       /\ jobs'[j].result.errors = <<>>]_vars

\* the server stored a scan log of the request but the response was lost,
\* and the device still has all of it queued
C16_Witness ==
  \E j \in JobSlots :
    /\ jobs[j].pc = "idle"
    /\ jobs[j].result.thrown # NoValue
    /\ syncTx.pc = "done"
    /\ \E lid \in Range(syncTx.synced.scanLogs) :
         lid \in PendingIds(pendingScanLogs)

----------------------------------------------------------------------------
\* The scheduler: claims.

\* the calls of checkAndSync whose performManualSync has not ended
InFlight == {j \in JobSlots : jobs[j].pc \in {"read", "sent", "wait"}}

\* C17: at most one reconciliation is in flight on the device at any time.
C17_SingleFlight == Cardinality(InFlight) <= 1

\* call j of checkAndSync calls performAutoSync in this step
Reconciles(j) == jobs[j].pc = "count" /\ jobs'[j].pc = "read"

\* C18: whenever the scheduler calls the reconciliation, the device is
\* online and something is pending at that moment.
C18_ReconcileOnlyOnline ==
  [][\A j \in JobSlots : Reconciles(j) => isOnline /\ PendingTotal > 0]_vars

\* the reconciliation attempts a step sets off: the settling timers it
\* starts and the MANUAL_SYNC messages it posts to the service worker
AttemptsTriggered == (timers' - timers) + Cardinality(swInbox' \ swInbox)

\* C19: a transition from offline to online sets off exactly one
\* reconciliation attempt, the one that runs after the settling delay.
C19_OneAttemptPerTransition ==
  [][~isOnline /\ isOnline' =>
       /\ AttemptsTriggered = 1
       /\ timers' = timers + 1]_vars

----------------------------------------------------------------------------
\* The offline scan: claims.

\* the cache has an ACTIVE entry under qr
CachedActive(qr) ==
  /\ CachedByQr(qr) # NoValue
  /\ cachedTickets[CachedByQr(qr)].status = "ACTIVE"

\* C20: an offline scan of a qrCode whose cache entry is ACTIVE queues
\* exactly one scan log (synced = 0, an id not used before, the ticketId of
\* the cache entry, scannedAt = t), sets that cache entry to USED with
\* usedAt = t, leaves the other entries and the pending tickets as they
\* were, and returns success flagged isOffline.
C20_OfflineScanEffects ==
  [][\A qr \in QrCodes : CachedActive(qr) /\ OfflineScan(qr) =>
       LET tid == CachedByQr(qr)
       IN /\ \E lid \in DOMAIN pendingScanLogs' :
               /\ lid \notin DOMAIN pendingScanLogs
               /\ lid \notin DOMAIN scanLogs
               /\ DOMAIN pendingScanLogs' = DOMAIN pendingScanLogs \cup {lid}
               /\ pendingScanLogs'[lid].synced = 0
               /\ pendingScanLogs'[lid].row.id = lid
               /\ pendingScanLogs'[lid].row.ticketId = tid
               /\ cachedTickets'[tid].usedAt = pendingScanLogs'[lid].row.scannedAt
               /\ scanResult'.scanLogId = lid
          /\ \A lid \in DOMAIN pendingScanLogs :
               pendingScanLogs'[lid] = pendingScanLogs[lid]
          /\ cachedTickets'[tid].status = "USED"
          /\ DOMAIN cachedTickets' = DOMAIN cachedTickets
          /\ \A id \in DOMAIN cachedTickets \ {tid} :
               cachedTickets'[id] = cachedTickets[id]
          /\ scanResult'.success /\ scanResult'.isOffline
          /\ pendingTickets' = pendingTickets]_vars

\* an offline scan has succeeded: its scan log is queued and the cache
\* entry is USED since the time of the scan
C20_Witness ==
  /\ scanResult.success /\ scanResult.isOffline
  /\ scanResult.scanLogId \in DOMAIN pendingScanLogs
  /\ LET row == pendingScanLogs[scanResult.scanLogId].row
     IN /\ row.ticketId \in DOMAIN cachedTickets
        /\ cachedTickets[row.ticketId].status = "USED"
        /\ cachedTickets[row.ticketId].usedAt = row.scannedAt

\* the code the authoritative scan throws for a ticket it refuses
RefusalCode(status) ==
  CASE status = "USED" -> "TICKET_USED"
    [] status = "CANCELLED" -> "TICKET_CANCELLED"
    [] status = "INVALID" -> "TICKET_INVALID"

\* C21: an offline scan of a qrCode whose cache entry is USED, CANCELLED or
\* INVALID fails with TICKET_USED, TICKET_CANCELLED or TICKET_INVALID
\* flagged isOffline, queues nothing and leaves the cache as it was.
C21_OfflineRefusal ==
  [][\A qr \in QrCodes :
       /\ CachedByQr(qr) # NoValue
       /\ cachedTickets[CachedByQr(qr)].status \in {"USED", "CANCELLED", "INVALID"}
       /\ OfflineScan(qr)
       => /\ ~scanResult'.success
          /\ scanResult'.error = RefusalCode(cachedTickets[CachedByQr(qr)].status)
          /\ scanResult'.error =
               ScanFailure(RefusalCode(cachedTickets[CachedByQr(qr)].status)).code
          /\ scanResult'.isOffline
          /\ scanResult'.scanLogId = NoLog
          /\ pendingScanLogs' = pendingScanLogs
          /\ pendingTickets' = pendingTickets
          /\ cachedTickets' = cachedTickets]_vars

\* an offline scan was refused because the cache holds the ticket as
\* CANCELLED, and nothing is queued
C21_Witness ==
  /\ ~isOnline
  /\ scanResult = OfflineFailure("TICKET_CANCELLED")
  /\ \E id \in DOMAIN cachedTickets : cachedTickets[id].status = "CANCELLED"
  /\ pendingScanLogs = EmptyFn

\* C22: an offline scan of a qrCode that has no cache entry fails with
\* NOT_FOUND_OFFLINE, which is not the code the authoritative scan gives an
\* unknown qrCode, and changes nothing in the stores of the device.
C22_OfflineNotFound ==
  [][\A qr \in QrCodes : CachedByQr(qr) = NoValue /\ OfflineScan(qr) =>
       /\ ~scanResult'.success
       /\ scanResult'.error = "NOT_FOUND_OFFLINE"
       /\ scanResult'.error # ScanFailure("TICKET_NOT_FOUND").code
       /\ pendingScanLogs' = pendingScanLogs
       /\ pendingTickets' = pendingTickets
       /\ cachedTickets' = cachedTickets]_vars

----------------------------------------------------------------------------
\* The scan page: claims.

\* the fetch of call k was rejected and the call ended in this step
FetchFailed(k) ==
  calls[k].pc = "fetch" /\ calls'[k].pc = "idle" /\ ~isOnline

\* C23: when the authoritative scan cannot be completed because of a
\* transport error, the outcome shown is the one of the offline scan of the
\* same payload.
C23_FallbackToOffline ==
  [][\A k \in ScanSlots : FetchFailed(k) =>
       /\ scanResult'.isOffline
       /\ scanResult'.error # "Network error"]_vars

\* call k of processTicketScan returned in this step
Returned(k) == calls[k].pc # "idle" /\ calls'[k].pc = "idle"

\* C24: a scan that ends with a failure outcome leaves the pending queues
\* of the device as they were.
C24_FailureKeepsQueues ==
  [][\A k \in ScanSlots : Returned(k) /\ ~scanResult'.success =>
       /\ pendingScanLogs' = pendingScanLogs
       /\ pendingTickets' = pendingTickets]_vars

\* a decoded payload got past the busy flag and the duplicate guard in this
\* step: call k goes on to validation
Validates(k) == calls[k].pc = "idle" /\ calls'[k].pc # "idle"

\* C25: a payload equal to the one processed last, with no other payload
\* and no reset since, does not reach validation: no call goes on to the
\* request or to the stores with it.
C25_DuplicateGuard ==
  [][\A k \in ScanSlots : Validates(k) =>
       calls'[k].qrCode # lastScannedCode]_vars

\* C26: the duplicate guard remembers only payloads that were processed
\* with success: when a scan of payload p ends in failure, p is not the
\* payload the guard holds, so p presented again reaches validation.
C26_GuardForgetsFailures ==
  [][\A k \in ScanSlots : Returned(k) /\ ~scanResult'.success =>
       lastScannedCode' # calls[k].qrCode]_vars

\* the calls of processTicketScan that are past the busy flag and have not
\* returned
Processing == {k \in ScanSlots : calls[k].pc # "idle"}

\* C27: on one device at most one scan is being processed at any time.
C27_OneScanAtATime == Cardinality(Processing) <= 1

----------------------------------------------------------------------------
\* The local store: claims.

\* C28: after any sequence of store operations getPendingSyncCount()
\* returns as tickets the number of rows getPendingTickets() returns, as
\* scanLogs the number getPendingScanLogs() returns, and as total their sum.
C28_CountsMatchLists ==
  /\ GetPendingSyncCount.tickets = Len(GetPending(pendingTickets, TicketOrder))
  /\ GetPendingSyncCount.scanLogs = Len(GetPending(pendingScanLogs, LogOrder))
  /\ GetPendingSyncCount.total =
       Len(GetPending(pendingTickets, TicketOrder))
       + Len(GetPending(pendingScanLogs, LogOrder))

\* the stores hold rows marked synced next to rows that are not, and the
\* count takes the latter only
C28_Witness ==
  /\ \E id \in DOMAIN pendingTickets : pendingTickets[id].synced = 1
  /\ \E lid \in DOMAIN pendingScanLogs : pendingScanLogs[lid].synced = 1
  /\ GetPendingSyncCount.tickets = 1
  /\ GetPendingSyncCount.scanLogs = 1
  /\ GetPendingSyncCount.total = 2

----------------------------------------------------------------------------
\* The ticket made offline: claims.

\* the reconciliation of the device creates the ticket of its current item
\* in this step
CreatesTicket ==
  /\ serving # NoValue
  /\ syncTx.pc = "create"
  /\ CurrentTicket.id \in DOMAIN syncTx'.wT

\* row has the fields of the ticket queued as q
SameTicket(row, q) ==
  /\ row.id = q.id
  /\ row.qrCode = q.qrCode
  /\ row.eventName = q.eventName
  /\ row.ticketType = q.ticketType
  /\ row.price = q.price
  /\ row.holderName = q.holderName
  /\ row.holderEmail = q.holderEmail
  /\ row.createdAt = q.createdAt

----------------------------------------------------------------------------
\* usedAt and status: claims.

\* the row has a usedAt exactly when its status is USED
UsedAtIffUsed(row) == (row.usedAt # NoTime) <=> (row.status = "USED")

\* C30: in every reachable state every ticket on record and every ticket in
\* the cache of the device has a usedAt if and only if its status is USED.
C30_UsedAtIffUsed ==
  /\ \A id \in DOMAIN tickets : UsedAtIffUsed(tickets[id])
  /\ \A id \in DOMAIN cachedTickets : UsedAtIffUsed(cachedTickets[id])

\* a reconciled offline scan has made T1 USED on record while the cache
\* holds it as USED too, and T2, made offline, is ACTIVE in both
C30_Witness ==
  /\ DOMAIN scanLogs # {}
  /\ {"T1", "T2"} \subseteq DOMAIN tickets \cap DOMAIN cachedTickets
  /\ tickets["T1"].status = "USED" /\ tickets["T1"].usedAt # NoTime
  /\ cachedTickets["T1"].status = "USED" /\ cachedTickets["T1"].usedAt # NoTime
  /\ tickets["T2"].status = "ACTIVE" /\ tickets["T2"].usedAt = NoTime
  /\ cachedTickets["T2"].status = "ACTIVE" /\ cachedTickets["T2"].usedAt = NoTime

----------------------------------------------------------------------------
\* The scan logs on record: claims.

\* C31: in every reachable state of the system of record the ticketId of
\* every scan log is the id of a ticket on record: no authoritative scan and
\* no reconciliation stores a scan log of a missing ticket.
C31_LogHasTicket ==
  \A lid \in DOMAIN scanLogs : scanLogs[lid].ticketId \in DOMAIN tickets

\* a reconciliation has reported a scan log of the missing ticket T2 as an
\* error and stored a scan log of T1
C31_Witness ==
  /\ syncTx.pc = "done"
  /\ \E k \in DOMAIN syncTx.errors :
       /\ syncTx.errors[k].type = "scanLog"
       /\ syncTx.errors[k].error = "Associated ticket not found"
  /\ "T2" \notin DOMAIN tickets
  /\ \E lid \in DOMAIN scanLogs : scanLogs[lid].ticketId = "T1"

\* C32: in every reachable state of the system of record a ticket that has
\* a scan log has a status other than ACTIVE.
C32_ScannedIsNotActive ==
  \A lid \in DOMAIN scanLogs :
    /\ scanLogs[lid].ticketId \in DOMAIN tickets
    /\ tickets[scanLogs[lid].ticketId].status # "ACTIVE"

\* a scan log of the scan route and a scan log of a reconciliation are on
\* record, the second one of a ticket the reconciliation flipped
C32_Witness ==
  /\ \E lid \in DOMAIN scanLogs :
       lid[1] = "srv" /\ tickets[scanLogs[lid].ticketId].status = "USED"
  /\ \E lid \in DOMAIN scanLogs :
       /\ lid[1] = "dev"
       /\ lid \in syncTx.flipped
       /\ tickets[scanLogs[lid].ticketId].status = "USED"

----------------------------------------------------------------------------
\* The device that has accepted a ticket: claims.

\* the device has accepted the ticket of qr offline before: the scan log of
\* that scan is in its store
AcceptedBefore(qr) ==
  \E lid \in DOMAIN pendingScanLogs :
    SeedQr(pendingScanLogs[lid].row.ticketId) = qr

\* C33: once the device has accepted a ticket, a later offline scan of the
\* same qrCode on the device is not accepted again and fails with
\* TICKET_USED, whatever cache refreshes and reconciliations came between.
C33_AcceptedOnce ==
  [][\A qr \in QrCodes :
       AcceptedBefore(qr) /\ OfflineScan(qr) =>
         /\ ~scanResult'.success
         /\ scanResult'.error = "TICKET_USED"]_vars

----------------------------------------------------------------------------
\* The merge report: claims.

\* how often id is listed in the synced list ids
TimesSynced(ids, id) == Cardinality({k \in DOMAIN ids : ids[k] = id})

\* how often id is listed in the errors of the report under type
TimesFailed(errs, type, id) ==
  Cardinality({k \in DOMAIN errs : errs[k].type = type /\ errs[k].id = id})

\* C34: the report of a reconciliation partitions the batch: every
\* submitted ticket id and scan log id is listed exactly once, in the synced
\* list of its kind or in the errors, and nothing else is listed, so that
\* ticketsSynced + scanLogsSynced + totalErrors =
\* ticketsProcessed + scanLogsProcessed.
C34_ReportPartitions ==
  syncTx.pc = "done" =>
    LET r == SyncResponse(syncTx)
        b == syncTx.batch
    IN /\ \A k \in DOMAIN b.tickets :
            TimesSynced(r.synced.tickets, b.tickets[k].id)
            + TimesFailed(r.errors, "ticket", b.tickets[k].id) = 1
       /\ \A k \in DOMAIN b.scanLogs :
            TimesSynced(r.synced.scanLogs, b.scanLogs[k].id)
            + TimesFailed(r.errors, "scanLog", b.scanLogs[k].id) = 1
       /\ r.summary.ticketsSynced + r.summary.scanLogsSynced
          + r.summary.totalErrors
            = r.summary.ticketsProcessed + r.summary.scanLogsProcessed

\* a report that lists a ticket and a scan log as errors and the other scan
\* log as synced
C34_Witness ==
  /\ syncTx.pc = "done"
  /\ Len(syncTx.batch.tickets) = 1
  /\ Len(syncTx.batch.scanLogs) = 2
  /\ Len(syncTx.synced.tickets) = 0
  /\ Len(syncTx.synced.scanLogs) = 1
  /\ Len(syncTx.errors) = 2

----------------------------------------------------------------------------
\* The order of a batch: claims.

\* the tickets the reconciliation in flight has created
CreatedInBatch ==
  {syncTx.batch.tickets[k].id : k \in DOMAIN syncTx.batch.tickets}
    \cap (DOMAIN syncTx.wT \ DOMAIN tickets)

\* the scan log loop has reported lid as the scan log of a missing ticket
Orphaned(tx, lid) ==
  \E k \in DOMAIN tx.errors :
    /\ tx.errors[k].type = "scanLog"
    /\ tx.errors[k].id = lid
    /\ tx.errors[k].error = "Associated ticket not found"

\* C36: within one reconciliation every ticket item is processed before any
\* scan log item, so a pending scan log whose ticket is created by a pending
\* ticket of the same batch finds that ticket, is stored by the commit and is
\* not reported as orphaned.
C36_TicketsBeforeLogs ==
  [][/\ syncTx'.pc \in {"ticket", "create"} /\ syncTx'.n = syncTx.n
          /\ syncTx.pc \notin {"idle", "done", "failed"}
        => syncTx.pc \in {"ticket", "create"}
     /\ SyncLogTicket /\ CurrentLog.ticketId \in CreatedInBatch
        => syncTx'.pc = "logWrite"
     /\ SyncCommits =>
          \A k \in DOMAIN syncTx.batch.scanLogs :
            syncTx.batch.scanLogs[k].ticketId \in CreatedInBatch =>
              /\ syncTx.batch.scanLogs[k].id \in DOMAIN scanLogs'
              /\ ~Orphaned(syncTx, syncTx.batch.scanLogs[k].id)]_vars

\* the device has reconciled the ticket T2 it made offline together with
\* the scan log of its offline scan: both are on record
C36_Witness ==
  /\ serving # NoValue
  /\ syncTx.pc = "done"
  /\ "T2" \in DOMAIN syncTx.wT
  /\ \E k \in DOMAIN syncTx.batch.tickets : syncTx.batch.tickets[k].id = "T2"
  /\ \E k \in DOMAIN syncTx.batch.scanLogs :
       /\ syncTx.batch.scanLogs[k].ticketId = "T2"
       /\ syncTx.batch.scanLogs[k].id \in DOMAIN syncTx.wL
       /\ syncTx.batch.scanLogs[k].id \in DOMAIN scanLogs
  /\ "T2" \in DOMAIN tickets
  /\ syncTx.errors = <<>>

----------------------------------------------------------------------------
\* Writes queued during a reconciliation: claims.

\* the rows of a pending store that were queued after call j of
\* checkAndSync had read its batch
EnqueuedInFlight(j, type) ==
  PendingIds(QueueOf(type)) \ SentIds(jobs[j].batch, type)

\* C37: a pending write queued on the device while a reconciliation is in
\* flight, after the reconciliation read its batch, is not removed and not
\* marked synced when that reconciliation ends, with a response or with a
\* failure: it is still pending, unchanged.
C37_LateWriteStaysPending ==
  [][\A j \in JobSlots : Replied(j) \/ Failed(j) =>
       \A type \in {"ticket", "scanLog"} :
         \A id \in EnqueuedInFlight(j, type) :
           /\ id \in PendingIds(QueueAfter(type))
           /\ QueueAfter(type)[id] = QueueOf(type)[id]]_vars

\* the reconciliation of one scan log has answered and a second scan log,
\* which was not in its request, is pending with synced = 0
C37_Witness ==
  /\ isOnline
  /\ serving = NoValue
  /\ syncTx.pc = "done"
  /\ jobs["timer"].pc = "idle"
  /\ jobs["timer"].result.success
  /\ jobs["timer"].result.scanLogsSynced = 1
  /\ Len(syncTx.batch.scanLogs) = 1
  /\ \E lid \in PendingIds(pendingScanLogs) :
       lid \notin SentIds(syncTx.batch, "scanLog")

----------------------------------------------------------------------------
\* Overlapping reconciliations: claims.

\* the scan logs of ticket tid whose write by tx has flipped the ticket
FlipsOf(tx, tid) == {lid \in tx.flipped : tx.wL[lid].ticketId = tid}

\* C38: two overlapping reconciliations with the same items leave one
\* ticket and one scan log per id on record and flip each ticket at most
\* once: no scan log and no ticket row is written by both requests, and
\* over the two requests each ticket is flipped by at most one scan log.
C38_OverlapWritesOnce ==
  /\ DOMAIN syncTx.wL \cap DOMAIN peerTx.wL = {}
  /\ DOMAIN syncTx.wT \cap DOMAIN peerTx.wT = {}
  /\ \A tid \in TicketIds :
       Cardinality(FlipsOf(syncTx, tid)) + Cardinality(FlipsOf(peerTx, tid)) <= 1

\* both requests have answered; each had read that the scan log was not on
\* record, one has stored it and flipped the ticket, the other has failed
\* on the unique id
C38_Witness ==
  /\ syncTx.pc = "done"
  /\ peerTx.pc = "done"
  /\ syncTx.flipped # {}
  /\ peerTx.flipped = {}
  /\ \E k \in DOMAIN peerTx.errors :
       /\ peerTx.errors[k].type = "scanLog"
       /\ peerTx.errors[k].error = "Unique constraint failed"
       /\ peerTx.errors[k].id \in syncTx.flipped

----------------------------------------------------------------------------
\* The cleanup of the scheduler: claims.

\* a trigger of the scheduler fires in this step: call j of checkAndSync
\* begins and finds the scheduler online while writes are pending, which it
\* goes on to reconcile
Triggered(j) ==
  /\ jobs[j].pc = "idle"
  /\ jobs'[j].pc = "count"
  /\ PendingTotal > 0

\* C39: after the cleanup of the scheduler has run, the scheduler starts no
\* further reconciliation: neither the interval nor a reconnect timer set
\* before the cleanup fires a call of checkAndSync that reconciles.
C39_CleanupStopsScheduler ==
  [][sched.stopped => \A j \in JobSlots : ~Triggered(j)]_vars

----------------------------------------------------------------------------
\* The two reconcilers: claims.

\* getPendingTickets / getPendingScanLogs of the service worker:
\* index.getAll(false) on the synced index; a boolean is not a valid key,
\* so the request throws and no row is selected
SwGetPending(store) == [thrown |-> TRUE, ids |-> {}]

\* getPendingTickets / getPendingScanLogs of the page:
\* where("synced").equals(0)
PageGetPending(store) == [thrown |-> FALSE, ids |-> PendingIds(store)]

\* C40: in every state of the local store the service worker and the page
\* select the same pending tickets and the same pending scan logs to
\* submit: the rows queued with synced = 0.
C40_SameSelection ==
  /\ SwGetPending(pendingTickets).ids = PageGetPending(pendingTickets).ids
  /\ SwGetPending(pendingScanLogs).ids = PageGetPending(pendingScanLogs).ids
  /\ PageGetPending(pendingTickets).ids =
       {id \in DOMAIN pendingTickets : pendingTickets[id].synced = 0}
  /\ PageGetPending(pendingScanLogs).ids =
       {id \in DOMAIN pendingScanLogs : pendingScanLogs[id].synced = 0}

====
